---- MODULE Spec2Model ----
(***************************************************************************)
(* A model of go-loggedio: LoggedIOProxy forwards Read, Write, Close and   *)
(* the net.Conn operations to a proxied object and reports the outcome to  *)
(* four callbacks built by the constructors of the package.                *)
(*                                                                         *)
(* Text is a sequence of tokens (strings); a format is a sequence of       *)
(* tokens in which "%v" is the verb.  Bytes are integers 0..255.           *)
(***************************************************************************)
EXTENDS Integers, Sequences, FiniteSets, TLC

\* Number of proxy calls made in one run.
MaxOps == 2
\* Length of the caller's read buffer and of the data passed to Write.
MaxLen == 2

VARIABLES
    proxy,      \* the LoggedIOProxy struct: proxiedObject and the four callbacks
    config,     \* the constructor and the arguments the proxy was built with
    mock,       \* the proxied object (class and MockIO fields)
    sink,       \* the contents of every destination the callbacks write to
    lastCall,   \* the most recent call: operation, target outcome, result
    nops,       \* number of calls made so far
    inner,      \* the proxy wrapped by `proxy` when two proxies are chained
    hex,        \* a byte sequence and its hex rendering
    threads,    \* the calls in progress when two goroutines share the proxy
    trace,      \* the target operations and callbacks of those calls, in order
    files       \* the paths that exist as files

vars == <<proxy, config, mock, sink, lastCall, nops, inner, hex, threads, trace, files>>

----------------------------------------------------------------------------
\* Values

Nil == "nil"

\* generateError(): fmt.Errorf("ERROR!")
generateError == "ERROR!"

Errors == {Nil, generateError}

\* net.Addr values a connection can return (MockIO returns nil).
Addrs == {Nil, "addr"}

\* generateBytes(length): result[i] = byte(i%charRange + 'a'), charRange = 'z'-'a'
generateBytes(length) == [i \in 1..length |-> ((i - 1) % (122 - 97)) + 97]

\* make([]byte, length): a zeroed buffer
make(length) == [i \in 1..length |-> 0]

\* copy(dst, src) for Len(src) <= Len(dst)
copy(dst, src) == [i \in 1..Len(dst) |-> IF i <= Len(src) THEN src[i] ELSE dst[i]]

\* b[:n]
Slice(b, n) == SubSeq(b, 1, n)

----------------------------------------------------------------------------
\* Formatting

hexDigits == <<"0", "1", "2", "3", "4", "5", "6", "7",
               "8", "9", "a", "b", "c", "d", "e", "f">>

RECURSIVE toHexFrom(_, _)
toHexFrom(b, i) ==
    IF i > Len(b) THEN <<>>
    ELSE <<hexDigits[(b[i] \div 16) + 1], hexDigits[(b[i] % 16) + 1]>>
         \o (IF i < Len(b) THEN <<" ">> ELSE <<>>)
         \o toHexFrom(b, i + 1)

RECURSIVE toHexSeparatorAfterEach(_, _)
toHexSeparatorAfterEach(b, i) ==
    IF i > Len(b) THEN <<>>
    ELSE <<hexDigits[(b[i] \div 16) + 1], hexDigits[(b[i] % 16) + 1], " ">>
         \o toHexSeparatorAfterEach(b, i + 1)

\* toHex that writes the separator after every byte, the last one included.
toHexTrailingSeparator(b) == toHexSeparatorAfterEach(b, 1)

\* toHex(b): two lowercase hex digits per byte, one space between bytes
toHex(b) == toHexFrom(b, 1)

Letters == <<"a", "b", "c", "d", "e", "f", "g", "h", "i", "j", "k", "l", "m",
             "n", "o", "p", "q", "r", "s", "t", "u", "v", "w", "x", "y", "z">>

\* string(b): the bytes read as text, one character per byte
String(b) == [i \in 1..Len(b) |->
                 IF b[i] \in 97..122 THEN Letters[b[i] - 96] ELSE "\\x"]

\* An operand of a formatting call: its Go type and its %v rendering.
StringArg(text) == [type |-> "string", text |-> text]
ErrorArg(err)   == [type |-> "*errors.errorString", text |-> <<err>>]

RECURSIVE Extra(_, _)
Extra(args, i) ==
    IF i > Len(args) THEN <<>>
    ELSE (IF i > 1 THEN <<", ">> ELSE <<>>)
         \o <<args[i].type, "=">> \o args[i].text
         \o Extra(args, i + 1)

RECURSIVE SprintfFrom(_, _, _)
SprintfFrom(format, i, args) ==
    IF i > Len(format)
    THEN IF args = <<>> THEN <<>>
         ELSE <<"%!(EXTRA ">> \o Extra(args, 1) \o <<")">>
    ELSE IF format[i] = "%v"
         THEN IF args = <<>>
              THEN <<"%!v(MISSING)">> \o SprintfFrom(format, i + 1, args)
              ELSE Head(args).text \o SprintfFrom(format, i + 1, Tail(args))
         ELSE <<format[i]>> \o SprintfFrom(format, i + 1, args)

\* fmt.Sprintf(format, args...): each %v takes the next operand; operands left
\* over are appended as %!(EXTRA type=value, ...)
Sprintf(format, args) == SprintfFrom(format, 1, args)

\* log.Printf: the log header, the text, and a newline when the text has none
LogOutput(s) ==
    <<"<log> ">> \o s
    \o (IF s = <<>> \/ s[Len(s)] # "\n" THEN <<"\n">> ELSE <<>>)

----------------------------------------------------------------------------
\* The callbacks the constructors build.  A callback is the closure's code
\* (fn), the writer it captured (w), the format or message it captured and the
\* encoding it applies to the bytes.

Writers == {"log", "writer", "readWriter", "writeWriter", "notifyWriter", "user",
            "stdout", "stderr", "r.log", "w.log", "n.log"}

Closure(fn, w, format, enc) == [fn |-> fn, w |-> w, format |-> format, enc |-> enc]

\* func([]byte) {}, func(string, error) {}, func() {}
Noop == Closure("noop", "log", <<>>, "none")

\* The closure DumpToWriters builds for a data channel: it writes the bytes to
\* its writer and hands the writer's error, if any, to errorFunc.
WriterFunc(writer, location, errorFunc) ==
    [fn |-> "WriteBytes", w |-> writer, format |-> <<>>, enc |-> "string",
     location |-> location, errorFunc |-> errorFunc]

\* The writers whose Write takes no byte and returns generateError(), as a
\* MockIO with FailNextOperations set does.
FailingWriters == {"failingReadWriter", "failingWriteWriter"}

byteFunc(format, function) == IF format = <<>> THEN Noop ELSE function

errFunc(format, function) == IF format = <<>> THEN Noop ELSE function

closeFunc(msg, function) == IF msg = <<>> THEN Noop ELSE function

Generic(proxiedObject, readEvent, writeEvent, errorEvent, closeEvent) ==
    [proxiedObject    |-> proxiedObject,
     reportReadEvent  |-> readEvent,
     reportWriteEvent |-> writeEvent,
     reportErrorEvent |-> errorEvent,
     reportCloseEvent |-> closeEvent]

StringToLog(proxiedObject, readFmt, writeFmt, errorFmt, closeMsg) ==
    Generic(proxiedObject,
            byteFunc(readFmt, Closure("Printf", "log", readFmt, "string")),
            byteFunc(writeFmt, Closure("Printf", "log", writeFmt, "string")),
            errFunc(errorFmt, Closure("Printf", "log", errorFmt, "none")),
            closeFunc(closeMsg, Closure("PrintfMsg", "log", closeMsg, "none")))

HexToLog(proxiedObject, readFmt, writeFmt, errorFmt, closeMsg) ==
    Generic(proxiedObject,
            byteFunc(readFmt, Closure("Printf", "log", readFmt, "hex")),
            byteFunc(readFmt, Closure("Printf", "log", writeFmt, "hex")),
            errFunc(errorFmt, Closure("Printf", "log", errorFmt, "none")),
            closeFunc(closeMsg, Closure("PrintfMsg", "log", closeMsg, "none")))

\* StringToWriter whose write callback formats with the read template.
StringToWriterReadFormat(proxiedObject, writer, readFmt, writeFmt, errorFmt, closeMsg) ==
    Generic(proxiedObject,
            byteFunc(readFmt, Closure("Fprintf", writer, readFmt, "string")),
            byteFunc(readFmt, Closure("Fprintf", writer, readFmt, "string")),
            errFunc(errorFmt, Closure("Fprintf", writer, errorFmt, "none")),
            closeFunc(closeMsg, Closure("WriteMsg", writer, closeMsg, "none")))

StringToWriter(proxiedObject, writer, readFmt, writeFmt, errorFmt, closeMsg) ==
    Generic(proxiedObject,
            byteFunc(readFmt, Closure("Fprintf", writer, readFmt, "string")),
            byteFunc(readFmt, Closure("Fprintf", writer, writeFmt, "string")),
            errFunc(errorFmt, Closure("Fprintf", writer, errorFmt, "none")),
            closeFunc(closeMsg, Closure("WriteMsg", writer, closeMsg, "none")))

HexToWriter(proxiedObject, writer, readFmt, writeFmt, errorFmt, closeMsg) ==
    Generic(proxiedObject,
            byteFunc(readFmt, Closure("Fprintf", writer, readFmt, "hex")),
            byteFunc(readFmt, Closure("Fprintf", writer, writeFmt, "hex")),
            errFunc(errorFmt, Closure("Fprintf", writer, errorFmt, "none")),
            closeFunc(closeMsg, Closure("WriteMsg", writer, closeMsg, "none")))

\* DumpToWriters whose write callback dumps to the read writer.
DumpToWritersOneWriter(proxiedObject, readWriter, writeWriter, notifyWriter, errorFmt, closeMsg) ==
    LET errorFunc == errFunc(errorFmt, Closure("Fprintf", notifyWriter, errorFmt, "none"))
    IN  Generic(proxiedObject,
                WriterFunc(readWriter, "LoggedIO readWriter", errorFunc),
                WriterFunc(readWriter, "LoggedIO writeWriter", errorFunc),
                errFunc(errorFmt, Closure("Fprintf", notifyWriter, errorFmt, "none")),
                closeFunc(closeMsg, Closure("WriteMsg", notifyWriter, closeMsg, "none")))

\* DumpToWriters that drops the error of a data writer.
DumpToWritersDropsWriterError(proxiedObject, readWriter, writeWriter, notifyWriter, errorFmt, closeMsg) ==
    Generic(proxiedObject,
            WriterFunc(readWriter, "LoggedIO readWriter", Noop),
            WriterFunc(writeWriter, "LoggedIO writeWriter", Noop),
            errFunc(errorFmt, Closure("Fprintf", notifyWriter, errorFmt, "none")),
            closeFunc(closeMsg, Closure("WriteMsg", notifyWriter, closeMsg, "none")))

\* The writers handed to DumpToWriters accept every write (bytes.Buffer), so
\* the callbacks' err != nil branch is not taken.
DumpToWriters(proxiedObject, readWriter, writeWriter, notifyWriter, errorFmt, closeMsg) ==
    LET errorFunc == errFunc(errorFmt, Closure("Fprintf", notifyWriter, errorFmt, "none"))
    IN  Generic(proxiedObject,
                WriterFunc(readWriter, "LoggedIO readWriter", errorFunc),
                WriterFunc(writeWriter, "LoggedIO writeWriter", errorFunc),
                errFunc(errorFmt, Closure("Fprintf", notifyWriter, errorFmt, "none")),
                closeFunc(closeMsg, Closure("WriteMsg", notifyWriter, closeMsg, "none")))

\* ioutil.Discard: what is written to it goes nowhere.
Discard == "ioutil.Discard"

\* One write to a destination.
Output(w, text) == [w |-> w, text |-> text]

Encode(enc, b) == IF enc = "hex" THEN toHex(b) ELSE String(b)

\* Calling a func(location string, err error) callback.
CallErrFunc(f, location, err) ==
    CASE f.fn = "Printf" ->
           <<Output("log", LogOutput(Sprintf(f.format, <<StringArg(<<location>>), ErrorArg(err)>>)))>>
      [] f.fn = "Fprintf" ->
           <<Output(f.w, Sprintf(f.format, <<StringArg(<<location>>), ErrorArg(err)>>))>>
      [] f.fn = "User" ->
           <<Output(f.w, f.format \o <<location, err>>)>>
      [] OTHER -> <<>>

\* Calling a func(b []byte) callback: the writes it makes, in order.
CallByteFunc(f, b) ==
    CASE f.fn = "Printf" ->
           <<Output("log", LogOutput(Sprintf(f.format, <<StringArg(Encode(f.enc, b))>>)))>>
      [] f.fn = "Fprintf" ->
           <<Output(f.w, Sprintf(f.format, <<StringArg(Encode(f.enc, b))>>))>>
      [] f.fn = "WriteBytes" ->
           IF f.w \in FailingWriters
           THEN CallErrFunc(f.errorFunc, f.location, generateError)
           ELSE <<Output(f.w, String(b))>>
      [] f.fn = "User" ->
           <<Output(f.w, f.format \o String(b))>>
      [] OTHER -> <<>>

\* Calling a func() callback.
CallCloseFunc(f) ==
    CASE f.fn = "PrintfMsg" ->
           <<Output("log", LogOutput(Sprintf(<<"%v">>, <<StringArg(f.format)>>)))>>
      [] f.fn = "WriteMsg" ->
           <<Output(f.w, f.format)>>
      [] f.fn = "User" ->
           <<Output(f.w, f.format)>>
      [] OTHER -> <<>>

----------------------------------------------------------------------------
\* The proxied object.  Its class decides which interfaces it satisfies; what
\* each of its operations returns is chosen by the environment, call by call.

AllMethods == {"Read", "Write", "Close", "LocalAddr", "RemoteAddr",
               "SetDeadline", "SetReadDeadline", "SetWriteDeadline"}

Classes == {"MockIO", "MockReader", "MockWriter", "MockCloser"}

\* The method set of each test double.
Methods(class) ==
    CASE class = "MockIO"     -> AllMethods
      [] class = "MockReader" -> {"Read"}
      [] class = "MockWriter" -> {"Write"}
      [] class = "MockCloser" -> {"Close"}
      [] class = "LoggedIOProxy" -> AllMethods

\* The method set an interface demands.
Interface(name) ==
    CASE name = "io.Reader" -> {"Read"}
      [] name = "io.Writer" -> {"Write"}
      [] name = "io.Closer" -> {"Close"}
      [] name = "net.Conn"  -> AllMethods

\* object.(iface) succeeds iff the object has every method of the interface.
TypeAssert(object, iface) == Interface(iface) \subseteq Methods(object)

\* &MockIO{}
NewMock(class) ==
    [class                     |-> class,
     WriteContents             |-> <<>>,
     CloseCallCount            |-> 0,
     LocalAddrCallCount        |-> 0,
     RemoteAddrCallCount       |-> 0,
     SetDeadlineCallCount      |-> 0,
     SetReadDeadlineCallCount  |-> 0,
     SetWriteDeadlineCallCount |-> 0]

\* What one call of a target operation returns: a count, an error, an address
\* and (for Read) the bytes placed at the start of the buffer.
Ret(n, err, addr, data) == [n |-> n, err |-> err, addr |-> addr, data |-> data]

\* The number of bytes of b a writer that returns n has taken: n itself for
\* every count a writer may return, none or all of b for a count outside 0..len(b).
Accepted(b, n) == IF n < 0 THEN 0 ELSE IF n > Len(b) THEN Len(b) ELSE n

\* The effect of one target operation on the target itself.
MockCall(m, method, b, ret) ==
    CASE method = "Write" -> [m EXCEPT !.WriteContents = @ \o Slice(b, Accepted(b, ret.n))]
      [] method = "Close" -> [m EXCEPT !.CloseCallCount = @ + 1]
      [] method = "LocalAddr" -> [m EXCEPT !.LocalAddrCallCount = @ + 1]
      [] method = "RemoteAddr" -> [m EXCEPT !.RemoteAddrCallCount = @ + 1]
      [] method = "SetDeadline" -> [m EXCEPT !.SetDeadlineCallCount = @ + 1]
      [] method = "SetReadDeadline" -> [m EXCEPT !.SetReadDeadlineCallCount = @ + 1]
      [] method = "SetWriteDeadline" -> [m EXCEPT !.SetWriteDeadlineCallCount = @ + 1]
      [] OTHER -> m

RECURSIVE Forward(_, _, _, _)
Forward(m, forwarded, b, ret) ==
    IF forwarded = <<>> THEN m
    ELSE Forward(MockCall(m, Head(forwarded), b, ret), Tail(forwarded), b, ret)

----------------------------------------------------------------------------
\* LoggedIOProxy.  Each method yields what the caller gets back (or a panic),
\* the buffer as the caller sees it afterwards, the callbacks it invoked, in
\* order, and the target operations it invoked, in order.

Event(slot, data, location, err) ==
    [slot |-> slot, data |-> data, location |-> location, err |-> err]

Result(outcome, n, err, addr, b, events, forwarded) ==
    [outcome |-> outcome, n |-> n, err |-> err, addr |-> addr, b |-> b,
     events |-> events, forwarded |-> forwarded]

\* A failed type assertion: nothing after it runs.
Panic(b) == Result("panic", 0, Nil, Nil, b, <<>>, <<>>)

reportReadEvent(readContents) == <<Event("read", readContents, "", Nil)>>

reportWriteEvent(writeContents) == <<Event("write", writeContents, "", Nil)>>

reportCloseEvent == <<Event("close", <<>>, "", Nil)>>

reportErrorEvent(location, err) == <<Event("error", <<>>, location, err)>>

\* The callback held by a slot of the proxy.
SlotOf(this, slot) ==
    CASE slot = "read"  -> this.reportReadEvent
      [] slot = "write" -> this.reportWriteEvent
      [] slot = "error" -> this.reportErrorEvent
      [] slot = "close" -> this.reportCloseEvent

\* Calling the callback panics: the slot holds nil, or the callback itself
\* panics.
Fails(f) == f.fn \in {"nil", "panics"}

\* cap(b): every buffer of the program is made with its capacity equal to its
\* length.
Cap(b) == Len(b)

\* A method that runs on with the next callback after a callback panicked.
CompleteRecovering(this, n, err, addr, b, events, forwarded) ==
    [outcome |-> "returned", n |-> n, err |-> err, addr |-> addr, b |-> b,
     events |-> events, forwarded |-> forwarded]

\* The rest of a method once the target has returned: the callbacks are called
\* in order; the first one that panics ends the call, nothing is recovered, and
\* the callbacks after it are not called.
Complete(this, n, err, addr, b, events, forwarded) ==
    LET failing == {i \in 1..Len(events) : Fails(SlotOf(this, events[i].slot))}
    IN  IF failing = {}
        THEN Result("returned", n, err, addr, b, events, forwarded)
        ELSE LET k == CHOOSE i \in failing : \A j \in failing : i <= j
             IN  Result(IF SlotOf(this, events[k].slot).fn = "nil"
                        THEN "panic: nil callback" ELSE "panic: callback",
                        0, Nil, Nil, b, SubSeq(events, 1, k), forwarded)

\* Read that drops the error once bytes were read.
ReadSwallowsError(this, b, ret) ==
    IF ~TypeAssert(this.proxiedObject, "io.Reader") THEN Panic(b)
    ELSE LET filled == copy(b, ret.data)
             err    == IF ret.n > 0 THEN Nil ELSE ret.err
         IN  Complete(this, ret.n, err, Nil, filled,
                    (IF ret.n > 0 THEN reportReadEvent(Slice(filled, ret.n)) ELSE <<>>)
                    \o (IF err # Nil THEN reportErrorEvent("Read()", err) ELSE <<>>),
                    <<"Read">>)

\* Read that reports the whole buffer instead of b[:n].
ReadReportsWholeBuffer(this, b, ret) ==
    IF ~TypeAssert(this.proxiedObject, "io.Reader") THEN Panic(b)
    ELSE LET filled == copy(b, ret.data)
         IN  Complete(this, ret.n, ret.err, Nil, filled,
                    (IF ret.n > 0 THEN reportReadEvent(filled) ELSE <<>>)
                    \o (IF ret.err # Nil THEN reportErrorEvent("Read()", ret.err) ELSE <<>>),
                    <<"Read">>)

\* Read that reports the error before the bytes.
ReadReportsErrorFirst(this, b, ret) ==
    IF ~TypeAssert(this.proxiedObject, "io.Reader") THEN Panic(b)
    ELSE LET filled == copy(b, ret.data)
         IN  Complete(this, ret.n, ret.err, Nil, filled,
                    (IF ret.err # Nil THEN reportErrorEvent("Read()", ret.err) ELSE <<>>)
                    \o (IF ret.n > 0 THEN reportReadEvent(Slice(filled, ret.n)) ELSE <<>>),
                    <<"Read">>)

Read(this, b, ret) ==
    IF ~TypeAssert(this.proxiedObject, "io.Reader") THEN Panic(b)
    ELSE LET filled == copy(b, ret.data)
         IN  IF ret.n > 0 /\ ret.n > Cap(b)
             THEN Result("panic: slice bounds", 0, Nil, Nil, filled, <<>>, <<"Read">>)
             ELSE Complete(this, ret.n, ret.err, Nil, filled,
                    (IF ret.n > 0 THEN reportReadEvent(Slice(filled, ret.n)) ELSE <<>>)
                    \o (IF ret.err # Nil THEN reportErrorEvent("Read()", ret.err) ELSE <<>>),
                    <<"Read">>)

\* Write that reports the failed type assertion through the error callback
\* before it panics.
WriteReportsMismatch(this, b, ret) ==
    IF ~TypeAssert(this.proxiedObject, "io.Writer")
    THEN Result("panic", 0, Nil, Nil, b, reportErrorEvent("Write()", generateError), <<>>)
    ELSE Complete(this, ret.n, ret.err, Nil, b,
                (IF ret.n > 0 THEN reportWriteEvent(Slice(b, ret.n)) ELSE <<>>)
                \o (IF ret.err # Nil THEN reportErrorEvent("Write()", ret.err) ELSE <<>>),
                <<"Write">>)

\* Write that reports all of b instead of b[:n].
WriteReportsWholeData(this, b, ret) ==
    IF ~TypeAssert(this.proxiedObject, "io.Writer") THEN Panic(b)
    ELSE Complete(this, ret.n, ret.err, Nil, b,
                (IF ret.n > 0 THEN reportWriteEvent(b) ELSE <<>>)
                \o (IF ret.err # Nil THEN reportErrorEvent("Write()", ret.err) ELSE <<>>),
                <<"Write">>)

\* Write that returns as soon as the target reports an error.
WriteReturnsEarlyOnError(this, b, ret) ==
    IF ~TypeAssert(this.proxiedObject, "io.Writer") THEN Panic(b)
    ELSE Complete(this, ret.n, ret.err, Nil, b,
                IF ret.err # Nil THEN reportErrorEvent("Write()", ret.err)
                ELSE IF ret.n > 0 THEN reportWriteEvent(Slice(b, ret.n)) ELSE <<>>,
                <<"Write">>)

Write(this, b, ret) ==
    IF ~TypeAssert(this.proxiedObject, "io.Writer") THEN Panic(b)
    ELSE IF ret.n > 0 /\ ret.n > Cap(b)
         THEN Result("panic: slice bounds", 0, Nil, Nil, b, <<>>, <<"Write">>)
         ELSE Complete(this, ret.n, ret.err, Nil, b,
                (IF ret.n > 0 THEN reportWriteEvent(Slice(b, ret.n)) ELSE <<>>)
                \o (IF ret.err # Nil THEN reportErrorEvent("Write()", ret.err) ELSE <<>>),
                <<"Write">>)

\* Close that reports the close only when the target closed without error.
CloseReportsOnSuccessOnly(this, ret) ==
    IF ~TypeAssert(this.proxiedObject, "io.Closer") THEN Panic(<<>>)
    ELSE Complete(this, 0, ret.err, Nil, <<>>,
                IF ret.err # Nil THEN reportErrorEvent("Close()", ret.err)
                ELSE reportCloseEvent,
                <<"Close">>)

Close(this, ret) ==
    IF ~TypeAssert(this.proxiedObject, "io.Closer") THEN Panic(<<>>)
    ELSE Complete(this, 0, ret.err, Nil, <<>>,
                reportCloseEvent
                \o (IF ret.err # Nil THEN reportErrorEvent("Close()", ret.err) ELSE <<>>),
                <<"Close">>)

LocalAddr(this, ret) ==
    IF ~TypeAssert(this.proxiedObject, "net.Conn") THEN Panic(<<>>)
    ELSE Complete(this, 0, Nil, ret.addr, <<>>, <<>>, <<"LocalAddr">>)

\* RemoteAddr that asks the connection for its local address.
RemoteAddrCallsLocalAddr(this, ret) ==
    IF ~TypeAssert(this.proxiedObject, "net.Conn") THEN Panic(<<>>)
    ELSE Complete(this, 0, Nil, ret.addr, <<>>, <<>>, <<"LocalAddr">>)

RemoteAddr(this, ret) ==
    IF ~TypeAssert(this.proxiedObject, "net.Conn") THEN Panic(<<>>)
    ELSE Complete(this, 0, Nil, ret.addr, <<>>, <<>>, <<"RemoteAddr">>)

\* SetDeadline that asserts io.Closer instead of net.Conn.
SetDeadlineAssertsCloser(this, ret) ==
    IF ~TypeAssert(this.proxiedObject, "io.Closer") THEN Panic(<<>>)
    ELSE Complete(this, 0, ret.err, Nil, <<>>,
                IF ret.err # Nil THEN reportErrorEvent("SetDeadline()", ret.err) ELSE <<>>,
                <<"SetDeadline">>)

SetDeadline(this, ret) ==
    IF ~TypeAssert(this.proxiedObject, "net.Conn") THEN Panic(<<>>)
    ELSE Complete(this, 0, ret.err, Nil, <<>>,
                IF ret.err # Nil THEN reportErrorEvent("SetDeadline()", ret.err) ELSE <<>>,
                <<"SetDeadline">>)

\* SetReadDeadline that reports its errors under the tag of SetDeadline.
SetReadDeadlineWrongTag(this, ret) ==
    IF ~TypeAssert(this.proxiedObject, "net.Conn") THEN Panic(<<>>)
    ELSE Complete(this, 0, ret.err, Nil, <<>>,
                IF ret.err # Nil THEN reportErrorEvent("SetDeadline()", ret.err) ELSE <<>>,
                <<"SetReadDeadline">>)

SetReadDeadline(this, ret) ==
    IF ~TypeAssert(this.proxiedObject, "net.Conn") THEN Panic(<<>>)
    ELSE Complete(this, 0, ret.err, Nil, <<>>,
                IF ret.err # Nil THEN reportErrorEvent("SetReadDeadline()", ret.err) ELSE <<>>,
                <<"SetReadDeadline">>)

\* SetWriteDeadline that reports its error twice.
SetWriteDeadlineReportsTwice(this, ret) ==
    IF ~TypeAssert(this.proxiedObject, "net.Conn") THEN Panic(<<>>)
    ELSE Complete(this, 0, ret.err, Nil, <<>>,
                IF ret.err # Nil
                THEN reportErrorEvent("SetWriteDeadline()", ret.err)
                     \o reportErrorEvent("SetWriteDeadline()", ret.err)
                ELSE <<>>,
                <<"SetWriteDeadline">>)

SetWriteDeadline(this, ret) ==
    IF ~TypeAssert(this.proxiedObject, "net.Conn") THEN Panic(<<>>)
    ELSE Complete(this, 0, ret.err, Nil, <<>>,
                IF ret.err # Nil THEN reportErrorEvent("SetWriteDeadline()", ret.err) ELSE <<>>,
                <<"SetWriteDeadline">>)

\* Invoking one callback slot of the proxy: the writes the callback makes.
Invoke(this, e) ==
    CASE e.slot = "read"  -> CallByteFunc(this.reportReadEvent, e.data)
      [] e.slot = "write" -> CallByteFunc(this.reportWriteEvent, e.data)
      [] e.slot = "error" -> CallErrFunc(this.reportErrorEvent, e.location, e.err)
      [] e.slot = "close" -> CallCloseFunc(this.reportCloseEvent)

RECURSIVE Deliver(_, _)
Deliver(this, events) ==
    IF events = <<>> THEN <<>>
    ELSE Invoke(this, Head(events)) \o Deliver(this, Tail(events))

RECURSIVE Emit(_, _)
Emit(s, outputs) ==
    IF outputs = <<>> THEN s
    ELSE IF Head(outputs).w = Discard THEN Emit(s, Tail(outputs))
    ELSE Emit([s EXCEPT ![Head(outputs).w] = @ \o Head(outputs).text], Tail(outputs))

----------------------------------------------------------------------------
\* Construction

\* The templates of the tests, and the empty template that disables a channel.
ReadFmts  == {<<>>, <<"R [", "%v", "]">>}
WriteFmts == {<<>>, <<"W [", "%v", "]">>}
ErrorFmts == {<<>>, <<"E [", "%v", ": ", "%v", "]">>}
CloseMsgs == {<<>>, <<"C">>}

Constructors == {"StringToLog", "HexToLog", "StringToWriter", "HexToWriter",
                 "DumpToWriters"}

Config(ctor, readFmt, writeFmt, errorFmt, closeMsg) ==
    [ctor |-> ctor, readFmt |-> readFmt, writeFmt |-> writeFmt,
     errorFmt |-> errorFmt, closeMsg |-> closeMsg]

Configs ==
    { Config(c, r, w, e, m) : c \in Constructors \ {"DumpToWriters"},
                              r \in ReadFmts, w \in WriteFmts,
                              e \in ErrorFmts, m \in CloseMsgs }
    \cup { Config("DumpToWriters", <<>>, <<>>, e, m) : e \in ErrorFmts, m \in CloseMsgs }

Construct(cfg, proxiedObject) ==
    CASE cfg.ctor = "StringToLog" ->
           StringToLog(proxiedObject, cfg.readFmt, cfg.writeFmt, cfg.errorFmt, cfg.closeMsg)
      [] cfg.ctor = "HexToLog" ->
           HexToLog(proxiedObject, cfg.readFmt, cfg.writeFmt, cfg.errorFmt, cfg.closeMsg)
      [] cfg.ctor = "StringToWriter" ->
           StringToWriter(proxiedObject, "writer", cfg.readFmt, cfg.writeFmt, cfg.errorFmt, cfg.closeMsg)
      [] cfg.ctor = "HexToWriter" ->
           HexToWriter(proxiedObject, "writer", cfg.readFmt, cfg.writeFmt, cfg.errorFmt, cfg.closeMsg)
      [] cfg.ctor = "DumpToWriters" ->
           DumpToWriters(proxiedObject, "readWriter", "writeWriter", "notifyWriter",
                         cfg.errorFmt, cfg.closeMsg)

\* No proxy: a single proxy wraps the target directly.
NoProxy == Generic("none", Noop, Noop, Noop, Noop)

\* No rendering asked for.
NoHex == [b |-> <<>>, s |-> <<>>, done |-> FALSE]

\* No goroutine is inside a call.
NoThreads == <<>>

\* No file is looked at.
NoFiles == {}

NoCall ==
    [op |-> "none", arg |-> <<>>, tgt |-> Ret(0, Nil, Nil, <<>>),
     res |-> Result("none", 0, Nil, Nil, <<>>, <<>>, <<>>),
     out |-> <<>>, prev |-> "none"]

Init ==
    /\ config \in Configs
    /\ \E class \in Classes :
          /\ mock = NewMock(class)
          /\ proxy = Construct(config, class)
    /\ sink = [w \in Writers |-> <<>>]
    /\ lastCall = NoCall
    /\ nops = 0
    /\ inner = NoProxy
    /\ hex = NoHex
    /\ threads = NoThreads
    /\ files = NoFiles
    /\ trace = <<>>

----------------------------------------------------------------------------
\* One call of a proxy method by the program that holds the proxy.

\* The target is any object of its class: a call of Read or Write may return
\* any count 0..len(b) with or without an error (MockIO's outcomes, set by
\* FailNextOperations and FailAfter*ByteCount, are among them), Read fills the
\* buffer with generateBytes(n) as MockIO does.
\*
\* What is recorded of a call: the operation, its argument, what the target
\* returned, what the proxy method did, what the callbacks wrote, and how the
\* call before it ended.
Record(op, arg, tgt, res) ==
    [op |-> op, arg |-> arg, tgt |-> tgt, res |-> res,
     out |-> Deliver(proxy, res.events),
     prev |-> lastCall.res.outcome]

DoRead ==
    /\ nops < MaxOps
    /\ \E n \in 0..MaxLen, err \in Errors :
          LET b   == make(MaxLen)
              tgt == Ret(n, err, Nil, generateBytes(n))
              res == Read(proxy, b, tgt)
          IN  /\ lastCall' = Record("Read", b, tgt, res)
              /\ sink' = Emit(sink, Deliver(proxy, res.events))
              /\ mock' = Forward(mock, res.forwarded, b, tgt)
    /\ nops' = nops + 1
    /\ UNCHANGED <<proxy, config, inner, hex, threads, trace, files>>

DoWrite ==
    /\ nops < MaxOps
    /\ \E n \in 0..MaxLen, err \in Errors :
          LET b   == generateBytes(MaxLen)
              tgt == Ret(n, err, Nil, <<>>)
              res == Write(proxy, b, tgt)
          IN  /\ lastCall' = Record("Write", b, tgt, res)
              /\ sink' = Emit(sink, Deliver(proxy, res.events))
              /\ mock' = Forward(mock, res.forwarded, b, tgt)
    /\ nops' = nops + 1
    /\ UNCHANGED <<proxy, config, inner, hex, threads, trace, files>>

\* A Close that drops the proxied object once it is closed.
DoCloseForgetsTarget ==
    /\ nops < MaxOps
    /\ \E err \in Errors :
          LET tgt == Ret(0, err, Nil, <<>>)
              res == Close(proxy, tgt)
          IN  /\ lastCall' = Record("Close", <<>>, tgt, res)
              /\ sink' = Emit(sink, Deliver(proxy, res.events))
              /\ mock' = Forward(mock, res.forwarded, <<>>, tgt)
    /\ nops' = nops + 1
    /\ proxy' = [proxy EXCEPT !.proxiedObject = Nil]
    /\ UNCHANGED <<config, inner, hex, threads, trace, files>>

DoClose ==
    /\ nops < MaxOps
    /\ \E err \in Errors :
          LET tgt == Ret(0, err, Nil, <<>>)
              res == Close(proxy, tgt)
          IN  /\ lastCall' = Record("Close", <<>>, tgt, res)
              /\ sink' = Emit(sink, Deliver(proxy, res.events))
              /\ mock' = Forward(mock, res.forwarded, <<>>, tgt)
    /\ nops' = nops + 1
    /\ UNCHANGED <<proxy, config, inner, hex, threads, trace, files>>

DoSetDeadline ==
    /\ nops < MaxOps
    /\ \E err \in Errors :
          LET tgt == Ret(0, err, Nil, <<>>)
              res == SetDeadline(proxy, tgt)
          IN  /\ lastCall' = Record("SetDeadline", <<>>, tgt, res)
              /\ sink' = Emit(sink, Deliver(proxy, res.events))
              /\ mock' = Forward(mock, res.forwarded, <<>>, tgt)
    /\ nops' = nops + 1
    /\ UNCHANGED <<proxy, config, inner, hex, threads, trace, files>>

DoSetReadDeadline ==
    /\ nops < MaxOps
    /\ \E err \in Errors :
          LET tgt == Ret(0, err, Nil, <<>>)
              res == SetReadDeadline(proxy, tgt)
          IN  /\ lastCall' = Record("SetReadDeadline", <<>>, tgt, res)
              /\ sink' = Emit(sink, Deliver(proxy, res.events))
              /\ mock' = Forward(mock, res.forwarded, <<>>, tgt)
    /\ nops' = nops + 1
    /\ UNCHANGED <<proxy, config, inner, hex, threads, trace, files>>

DoSetWriteDeadline ==
    /\ nops < MaxOps
    /\ \E err \in Errors :
          LET tgt == Ret(0, err, Nil, <<>>)
              res == SetWriteDeadline(proxy, tgt)
          IN  /\ lastCall' = Record("SetWriteDeadline", <<>>, tgt, res)
              /\ sink' = Emit(sink, Deliver(proxy, res.events))
              /\ mock' = Forward(mock, res.forwarded, <<>>, tgt)
    /\ nops' = nops + 1
    /\ UNCHANGED <<proxy, config, inner, hex, threads, trace, files>>

DoLocalAddr ==
    /\ nops < MaxOps
    /\ \E addr \in Addrs :
          LET tgt == Ret(0, Nil, addr, <<>>)
              res == LocalAddr(proxy, tgt)
          IN  /\ lastCall' = Record("LocalAddr", <<>>, tgt, res)
              /\ sink' = Emit(sink, Deliver(proxy, res.events))
              /\ mock' = Forward(mock, res.forwarded, <<>>, tgt)
    /\ nops' = nops + 1
    /\ UNCHANGED <<proxy, config, inner, hex, threads, trace, files>>

DoRemoteAddr ==
    /\ nops < MaxOps
    /\ \E addr \in Addrs :
          LET tgt == Ret(0, Nil, addr, <<>>)
              res == RemoteAddr(proxy, tgt)
          IN  /\ lastCall' = Record("RemoteAddr", <<>>, tgt, res)
              /\ sink' = Emit(sink, Deliver(proxy, res.events))
              /\ mock' = Forward(mock, res.forwarded, <<>>, tgt)
    /\ nops' = nops + 1
    /\ UNCHANGED <<proxy, config, inner, hex, threads, trace, files>>

Next ==
    \/ DoRead
    \/ DoWrite
    \/ DoClose
    \/ DoLocalAddr
    \/ DoRemoteAddr
    \/ DoSetDeadline
    \/ DoSetReadDeadline
    \/ DoSetWriteDeadline

Spec == Init /\ [][Next]_vars

----------------------------------------------------------------------------
\* A proxy made by Generic over a capable target that may return any count.

\* What the caller of Generic passes for a slot: a callback of its own that
\* records the event, nil, or a callback that panics.
CallbackKinds == {"User", "nil", "panics"}

Callback(kind, label) == Closure(kind, "user", <<label>>, "none")

\* The callbacks of one proxy are either all set, some of them panicking, or
\* none panicking, some of them nil.
GenericConfigs ==
    {cfg \in [ctor : {"Generic"}, read : CallbackKinds, write : CallbackKinds,
              error : CallbackKinds, close : CallbackKinds] :
        ~ (/\ "nil" \in {cfg.read, cfg.write, cfg.error, cfg.close}
           /\ "panics" \in {cfg.read, cfg.write, cfg.error, cfg.close})}

ConstructGeneric(cfg, proxiedObject) ==
    Generic(proxiedObject, Callback(cfg.read, "read"), Callback(cfg.write, "write"),
            Callback(cfg.error, "error"), Callback(cfg.close, "close"))

\* The counts a Reader or Writer can return: any int, here from one below zero
\* to one above the length of the buffer.
Counts == (0 - 1)..(MaxLen + 1)

InitGeneric ==
    /\ config \in GenericConfigs
    /\ mock = NewMock("MockIO")
    /\ proxy = ConstructGeneric(config, "MockIO")
    /\ sink = [w \in Writers |-> <<>>]
    /\ lastCall = NoCall
    /\ nops = 0
    /\ inner = NoProxy
    /\ hex = NoHex
    /\ threads = NoThreads
    /\ files = NoFiles
    /\ trace = <<>>

DoReadAny ==
    /\ nops < MaxOps
    /\ \E n \in Counts, err \in Errors :
          LET b   == make(MaxLen)
              tgt == Ret(n, err, Nil, generateBytes(Accepted(b, n)))
              res == Read(proxy, b, tgt)
          IN  /\ lastCall' = Record("Read", b, tgt, res)
              /\ sink' = Emit(sink, Deliver(proxy, res.events))
              /\ mock' = Forward(mock, res.forwarded, b, tgt)
    /\ nops' = nops + 1
    /\ UNCHANGED <<proxy, config, inner, hex, threads, trace, files>>

DoWriteAny ==
    /\ nops < MaxOps
    /\ \E n \in Counts, err \in Errors :
          LET b   == generateBytes(MaxLen)
              tgt == Ret(n, err, Nil, <<>>)
              res == Write(proxy, b, tgt)
          IN  /\ lastCall' = Record("Write", b, tgt, res)
              /\ sink' = Emit(sink, Deliver(proxy, res.events))
              /\ mock' = Forward(mock, res.forwarded, b, tgt)
    /\ nops' = nops + 1
    /\ UNCHANGED <<proxy, config, inner, hex, threads, trace, files>>

NextGeneric ==
    \/ DoReadAny
    \/ DoWriteAny
    \/ DoClose
    \/ DoSetDeadline

SpecGeneric == InitGeneric /\ [][NextGeneric]_vars

----------------------------------------------------------------------------
\* Two proxies chained around one target: `proxy` has the proxy `inner` as its
\* proxied object, and `inner` has the target.

\* A method of a proxy whose proxied object is the proxy `target`: the call of
\* this.proxiedObject.Write runs the whole method of `target` (the real
\* operation, then the callbacks of `target`) before the callbacks of `this`.
\* A panic inside `target` unwinds through `this`.
Nest(this, target, innerRes, outerRes) ==
    IF innerRes.outcome = "returned"
    THEN [res |-> [outerRes EXCEPT !.forwarded = innerRes.forwarded],
          out |-> Deliver(target, innerRes.events) \o Deliver(this, outerRes.events)]
    ELSE [res |-> [innerRes EXCEPT !.events = <<>>],
          out |-> Deliver(target, innerRes.events)]

\* A nested Write whose outer proxy reports before it forwards.
NestedWriteReportsBeforeForwarding(this, target, b, ret) ==
    LET innerRes == Write(target, b, ret)
        outerRes == Write(this, b, Ret(innerRes.n, innerRes.err, Nil, <<>>))
    IN  [res |-> [outerRes EXCEPT !.forwarded = innerRes.forwarded],
         out |-> Deliver(this, outerRes.events) \o Deliver(target, innerRes.events)]

NestedWrite(this, target, b, ret) ==
    LET innerRes == Write(target, b, ret)
        outerRes == Write(this, b, Ret(innerRes.n, innerRes.err, Nil, <<>>))
    IN  Nest(this, target, innerRes, outerRes)

\* A nested Read whose outer proxy reads from the target again.
NestedReadReadsTwice(this, target, b, ret) ==
    LET innerRes == Read(target, b, ret)
        outerRes == Read(this, innerRes.b, ret)
    IN  [res |-> [outerRes EXCEPT !.forwarded = innerRes.forwarded \o outerRes.forwarded],
         out |-> Deliver(target, innerRes.events) \o Deliver(this, outerRes.events)]

NestedRead(this, target, b, ret) ==
    LET innerRes == Read(target, b, ret)
        outerRes == Read(this, innerRes.b,
                         Ret(innerRes.n, innerRes.err, Nil,
                             Slice(innerRes.b, Accepted(innerRes.b, innerRes.n))))
    IN  Nest(this, target, innerRes, outerRes)

\* The two proxies of the README's chaining example.
stringProxy(proxiedObject) ==
    StringToWriter(proxiedObject, "writer", <<"RS [", "%v", "]\n">>, <<"WS [", "%v", "]\n">>,
                   <<"E [", "%v", ": ", "%v", "]\n">>, <<"C\n">>)

hexProxy(proxiedObject) ==
    HexToWriter(proxiedObject, "writer", <<"RH [", "%v", "]\n">>, <<"WH [", "%v", "]\n">>,
                <<>>, <<>>)

\* Either proxy can be the outer one.
ChainConfigs == [ctor : {"Chain"}, outer : {"hex", "string"}]

InitChain ==
    /\ config \in ChainConfigs
    /\ mock = NewMock("MockIO")
    /\ inner = IF config.outer = "hex" THEN stringProxy("MockIO") ELSE hexProxy("MockIO")
    /\ proxy = IF config.outer = "hex" THEN hexProxy("LoggedIOProxy")
                                       ELSE stringProxy("LoggedIOProxy")
    /\ sink = [w \in Writers |-> <<>>]
    /\ lastCall = NoCall
    /\ nops = 0
    /\ hex = NoHex
    /\ threads = NoThreads
    /\ files = NoFiles
    /\ trace = <<>>

DoChainWrite ==
    /\ nops < MaxOps
    /\ \E n \in 0..MaxLen, err \in Errors :
          LET b    == generateBytes(MaxLen)
              tgt  == Ret(n, err, Nil, <<>>)
              call == NestedWrite(proxy, inner, b, tgt)
          IN  /\ lastCall' = [Record("Write", b, tgt, call.res) EXCEPT !.out = call.out]
              /\ sink' = Emit(sink, call.out)
              /\ mock' = Forward(mock, call.res.forwarded, b, tgt)
    /\ nops' = nops + 1
    /\ UNCHANGED <<proxy, config, inner, hex, threads, trace, files>>

DoChainRead ==
    /\ nops < MaxOps
    /\ \E n \in 0..MaxLen, err \in Errors :
          LET b    == make(MaxLen)
              tgt  == Ret(n, err, Nil, generateBytes(n))
              call == NestedRead(proxy, inner, b, tgt)
          IN  /\ lastCall' = [Record("Read", b, tgt, call.res) EXCEPT !.out = call.out]
              /\ sink' = Emit(sink, call.out)
              /\ mock' = Forward(mock, call.res.forwarded, b, tgt)
    /\ nops' = nops + 1
    /\ UNCHANGED <<proxy, config, inner, hex, threads, trace, files>>

NextChain ==
    \/ DoChainWrite
    \/ DoChainRead

SpecChain == InitChain /\ [][NextChain]_vars

----------------------------------------------------------------------------
\* A proxy made by DumpToFiles.

\* The file system before the proxy is made: the files that exist, with what
\* they hold, and the paths at which os.Create fails.
ExistingFiles == {"r.log", "n.log"}
OldContent == <<"old">>
Uncreatable == {"/nodir/r.log", "/nodir/w.log", "/nodir/n.log"}
createError == "open: no such file or directory"

\* writerForFile without the warning when os.Create fails.
writerForFileSilent(filename) ==
    CASE filename = "stdout" -> [writer |-> "stdout", created |-> {}, logged |-> <<>>]
      [] filename = "stderr" -> [writer |-> "stderr", created |-> {}, logged |-> <<>>]
      [] filename = "null"   -> [writer |-> Discard, created |-> {}, logged |-> <<>>]
      [] OTHER ->
           IF filename \in Uncreatable
           THEN [writer |-> Discard, created |-> {}, logged |-> <<>>]
           ELSE [writer |-> filename, created |-> {filename}, logged |-> <<>>]

\* writerForFile: the writer it returns, the file os.Create made or truncated,
\* and what log.Printf wrote.
writerForFile(filename) ==
    CASE filename = "stdout" -> [writer |-> "stdout", created |-> {}, logged |-> <<>>]
      [] filename = "stderr" -> [writer |-> "stderr", created |-> {}, logged |-> <<>>]
      [] filename = "null"   -> [writer |-> Discard, created |-> {}, logged |-> <<>>]
      [] OTHER ->
           IF filename \in Uncreatable
           THEN [writer |-> Discard, created |-> {},
                 logged |-> LogOutput(Sprintf(<<"LoggedIO: Error creating ", "%v", ": ", "%v">>,
                                              <<StringArg(<<filename>>), ErrorArg(createError)>>))]
           ELSE [writer |-> filename, created |-> {filename}, logged |-> <<>>]

DumpToFiles(proxiedObject, readFilename, writeFilename, notifyFilename, errorFmt, closeMsg) ==
    DumpToWriters(proxiedObject, writerForFile(readFilename).writer,
                  writerForFile(writeFilename).writer, writerForFile(notifyFilename).writer,
                  errorFmt, closeMsg)

\* The names given for the three channels: each special name, a path that can
\* be created and a path that cannot; the three paths of a proxy differ.
ReadFilenames   == {"stdout", "null", "r.log", "/nodir/r.log"}
WriteFilenames  == {"stderr", "null", "w.log", "/nodir/w.log"}
NotifyFilenames == {"stdout", "stderr", "n.log", "/nodir/n.log"}

FileConfigs ==
    [ctor : {"DumpToFiles"}, readFilename : ReadFilenames, writeFilename : WriteFilenames,
     notifyFilename : NotifyFilenames, errorFmt : {<<"E [", "%v", ": ", "%v", "]">>},
     closeMsg : {<<"C">>}]

\* The state once DumpToFiles has returned: the three calls of writerForFile
\* have run in the order of the arguments.
InitFiles ==
    /\ config \in FileConfigs
    /\ mock = NewMock("MockIO")
    /\ proxy = DumpToFiles("MockIO", config.readFilename, config.writeFilename,
                           config.notifyFilename, config.errorFmt, config.closeMsg)
    /\ LET r == writerForFile(config.readFilename)
           w == writerForFile(config.writeFilename)
           n == writerForFile(config.notifyFilename)
           created == r.created \cup w.created \cup n.created
       IN  /\ files = ExistingFiles \cup created
           /\ sink = [d \in Writers |->
                        IF d = "log" THEN r.logged \o w.logged \o n.logged
                        ELSE IF d \in ExistingFiles \ created THEN OldContent
                        ELSE <<>>]
    /\ lastCall = NoCall
    /\ nops = 0
    /\ inner = NoProxy
    /\ hex = NoHex
    /\ threads = NoThreads
    /\ trace = <<>>

NextFiles ==
    \/ DoRead
    \/ DoWrite
    \/ DoClose

SpecFiles == InitFiles /\ [][NextFiles]_vars

----------------------------------------------------------------------------
\* Two goroutines calling Read, Write and Close on one proxy.  The methods take
\* no lock: a goroutine can be suspended between the return of the target's
\* operation and each of the callbacks that follow it.  The target and the
\* writer each serialise their own operations.

Goroutines == {"A", "B"}

Idle == [pc |-> "idle", call |-> 0, pending |-> <<>>]

\* One entry of the trace: goroutine g, in its call number `call`, ran the
\* target's operation or a callback.
Step(g, call, kind, slot) == [g |-> g, call |-> call, kind |-> kind, slot |-> slot]

InitConc ==
    /\ config = Config("StringToWriter", <<"R [", "%v", "]">>, <<"W [", "%v", "]">>,
                       <<"E [", "%v", ": ", "%v", "]">>, <<"C">>)
    /\ mock = NewMock("MockIO")
    /\ proxy = Construct(config, "MockIO")
    /\ sink = [w \in Writers |-> <<>>]
    /\ lastCall = NoCall
    /\ nops = 0
    /\ inner = NoProxy
    /\ hex = NoHex
    /\ threads = [g \in Goroutines |-> Idle]
    /\ trace = <<>>
    /\ files = NoFiles

\* Goroutine g enters a method and the target performs the operation, moving
\* no byte or all of them.
ConcCall(g) ==
    /\ nops < MaxOps
    /\ threads[g].pc = "idle"
    /\ \E op \in {"Read", "Write", "Close"}, n \in {0, MaxLen}, err \in Errors :
          LET b   == IF op = "Read" THEN make(MaxLen) ELSE generateBytes(MaxLen)
              tgt == IF op = "Read" THEN Ret(n, err, Nil, generateBytes(n))
                     ELSE IF op = "Write" THEN Ret(n, err, Nil, <<>>)
                     ELSE Ret(0, err, Nil, <<>>)
              res == IF op = "Read" THEN Read(proxy, b, tgt)
                     ELSE IF op = "Write" THEN Write(proxy, b, tgt)
                     ELSE Close(proxy, tgt)
          IN  /\ threads' = [threads EXCEPT ![g] =
                               [pc |-> "reporting", call |-> nops + 1, pending |-> res.events]]
              /\ trace' = Append(trace, Step(g, nops + 1, "target", op))
              /\ mock' = Forward(mock, res.forwarded, b, tgt)
    /\ nops' = nops + 1
    /\ UNCHANGED <<proxy, config, sink, lastCall, inner, hex, files>>

\* A method that calls its callbacks last first.
ConcReportLastFirst(g) ==
    /\ threads[g].pc = "reporting"
    /\ threads[g].pending # <<>>
    /\ LET k == Len(threads[g].pending)
           e == threads[g].pending[k]
       IN  /\ sink' = Emit(sink, Invoke(proxy, e))
           /\ trace' = Append(trace, Step(g, threads[g].call, "callback", e.slot))
           /\ threads' = [threads EXCEPT ![g].pending = SubSeq(@, 1, k - 1)]
    /\ UNCHANGED <<proxy, config, mock, lastCall, nops, inner, hex, files>>

\* Goroutine g calls the next callback of its method.
ConcReport(g) ==
    /\ threads[g].pc = "reporting"
    /\ threads[g].pending # <<>>
    /\ LET e == Head(threads[g].pending)
       IN  /\ sink' = Emit(sink, Invoke(proxy, e))
           /\ trace' = Append(trace, Step(g, threads[g].call, "callback", e.slot))
           /\ threads' = [threads EXCEPT ![g].pending = Tail(@)]
    /\ UNCHANGED <<proxy, config, mock, lastCall, nops, inner, hex, files>>

\* The method of goroutine g returns.
ConcReturn(g) ==
    /\ threads[g].pc = "reporting"
    /\ threads[g].pending = <<>>
    /\ threads' = [threads EXCEPT ![g] = Idle]
    /\ UNCHANGED <<proxy, config, mock, sink, lastCall, nops, inner, hex, trace, files>>

NextConc ==
    \E g \in Goroutines :
        \/ ConcCall(g)
        \/ ConcReport(g)
        \/ ConcReturn(g)

SpecConc == InitConc /\ [][NextConc]_vars

----------------------------------------------------------------------------
\* One caller, with the steps inside each method told apart: the type
\* assertion and the target's operation, then each callback, then the return.

\* The method named op applied to the proxy.
Dispatch(this, op, b, ret) ==
    CASE op = "Read"             -> Read(this, b, ret)
      [] op = "Write"            -> Write(this, b, ret)
      [] op = "Close"            -> Close(this, ret)
      [] op = "LocalAddr"        -> LocalAddr(this, ret)
      [] op = "RemoteAddr"       -> RemoteAddr(this, ret)
      [] op = "SetDeadline"      -> SetDeadline(this, ret)
      [] op = "SetReadDeadline"  -> SetReadDeadline(this, ret)
      [] op = "SetWriteDeadline" -> SetWriteDeadline(this, ret)

\* What the target can return from op when called with a buffer of MaxLen bytes.
Returns(op) ==
    CASE op = "Read"  -> {Ret(n, err, Nil, generateBytes(n)) : n \in 0..MaxLen, err \in Errors}
      [] op = "Write" -> {Ret(n, err, Nil, <<>>) : n \in 0..MaxLen, err \in Errors}
      [] op \in {"LocalAddr", "RemoteAddr"} -> {Ret(0, Nil, addr, <<>>) : addr \in Addrs}
      [] OTHER -> {Ret(0, err, Nil, <<>>) : err \in Errors}

\* The argument the caller passes to op.
Argument(op) ==
    CASE op = "Read"  -> make(MaxLen)
      [] op = "Write" -> generateBytes(MaxLen)
      [] OTHER -> <<>>

Caller == "A"

InitSeq ==
    /\ config = Config("StringToWriter", <<"R [", "%v", "]">>, <<"W [", "%v", "]">>,
                       <<"E [", "%v", ": ", "%v", "]">>, <<"C">>)
    /\ \E class \in Classes :
          /\ mock = NewMock(class)
          /\ proxy = Construct(config, class)
    /\ sink = [w \in Writers |-> <<>>]
    /\ lastCall = NoCall
    /\ nops = 0
    /\ inner = NoProxy
    /\ hex = NoHex
    /\ threads = [g \in {Caller} |-> Idle]
    /\ trace = <<>>
    /\ files = NoFiles

\* A method that calls the target again when the target returned an error.
SeqCallRetries ==
    /\ nops < MaxOps
    /\ threads[Caller].pc = "idle"
    /\ \E op \in AllMethods :
          \E tgt \in Returns(op) :
             LET b   == Argument(op)
                 res == Dispatch(proxy, op, b, tgt)
                 again == IF tgt.err # Nil THEN res.forwarded ELSE <<>>
             IN  /\ lastCall' = Record(op, b, tgt, res)
                 /\ mock' = Forward(mock, res.forwarded \o again, b, tgt)
                 /\ IF res.outcome = "panic"
                    THEN UNCHANGED <<threads, trace>>
                    ELSE /\ threads' = [threads EXCEPT ![Caller] =
                                  [pc |-> "reporting", call |-> nops + 1, pending |-> res.events]]
                         /\ trace' = trace \o [i \in 1..Len(res.forwarded \o again) |->
                                                 Step(Caller, nops + 1, "target", op)]
    /\ nops' = nops + 1
    /\ UNCHANGED <<proxy, config, sink, inner, hex, files>>

\* The caller enters a method: the type assertion fails and the method panics,
\* or the target performs the operation on the caller's argument.
SeqCall ==
    /\ nops < MaxOps
    /\ threads[Caller].pc = "idle"
    /\ \E op \in AllMethods :
          \E tgt \in Returns(op) :
             LET b   == Argument(op)
                 res == Dispatch(proxy, op, b, tgt)
             IN  /\ lastCall' = Record(op, b, tgt, res)
                 /\ mock' = Forward(mock, res.forwarded, b, tgt)
                 /\ IF res.outcome = "panic"
                    THEN UNCHANGED <<threads, trace>>
                    ELSE /\ threads' = [threads EXCEPT ![Caller] =
                                  [pc |-> "reporting", call |-> nops + 1, pending |-> res.events]]
                         /\ trace' = trace \o [i \in 1..Len(res.forwarded) |->
                                                 Step(Caller, nops + 1, "target", op)]
    /\ nops' = nops + 1
    /\ UNCHANGED <<proxy, config, sink, inner, hex, files>>

NextSeq ==
    \/ SeqCall
    \/ ConcReport(Caller)
    \/ ConcReturn(Caller)

SpecSeq == InitSeq /\ [][NextSeq]_vars

----------------------------------------------------------------------------
\* A proxy made by DumpToWriters whose data writers may fail.

SinkConfigs ==
    [ctor : {"DumpToWriters"}, readWriter : {"readWriter", "failingReadWriter"},
     writeWriter : {"writeWriter", "failingWriteWriter"},
     errorFmt : ErrorFmts, closeMsg : CloseMsgs]

InitSink ==
    /\ config \in SinkConfigs
    /\ mock = NewMock("MockIO")
    /\ proxy = DumpToWriters("MockIO", config.readWriter, config.writeWriter, "notifyWriter",
                             config.errorFmt, config.closeMsg)
    /\ sink = [w \in Writers |-> <<>>]
    /\ lastCall = NoCall
    /\ nops = 0
    /\ inner = NoProxy
    /\ hex = NoHex
    /\ threads = NoThreads
    /\ trace = <<>>
    /\ files = NoFiles

NextSink ==
    \/ DoRead
    \/ DoWrite
    \/ DoClose

SpecSink == InitSink /\ [][NextSink]_vars

----------------------------------------------------------------------------
\* toHex applied to a byte sequence.

\* Longest byte sequence rendered.
MaxHexLen == 4

\* Bytes with every combination of small and large nibbles.
HexBytes == {0, 1, 2, 10, 174, 241, 255}

RECURSIVE SeqsUpTo(_, _)
SeqsUpTo(S, n) ==
    IF n = 0 THEN {<<>>}
    ELSE LET shorter == SeqsUpTo(S, n - 1)
         IN  shorter \cup {Append(q, x) : q \in {r \in shorter : Len(r) = n - 1}, x \in S}

InitHex ==
    /\ hex \in {[b |-> b, s |-> <<>>, done |-> FALSE] : b \in SeqsUpTo(HexBytes, MaxHexLen)}
    /\ proxy = NoProxy
    /\ config = Config("none", <<>>, <<>>, <<>>, <<>>)
    /\ mock = NewMock("MockIO")
    /\ sink = [w \in Writers |-> <<>>]
    /\ lastCall = NoCall
    /\ nops = 0
    /\ inner = NoProxy
    /\ threads = NoThreads
    /\ files = NoFiles
    /\ trace = <<>>

DoToHex ==
    /\ ~hex.done
    /\ hex' = [hex EXCEPT !.s = toHex(hex.b), !.done = TRUE]
    /\ UNCHANGED <<proxy, config, mock, sink, lastCall, nops, inner, threads, trace, files>>

NextHex == DoToHex

SpecHex == InitHex /\ [][NextHex]_vars

----------------------------------------------------------------------------
\* Properties

\* The last call was `op` and it returned to its caller.
Returned(op) == lastCall.op = op /\ lastCall.res.outcome = "returned"

\* The callbacks of one slot among the callbacks the last call invoked.
EventsOf(slot) == SelectSeq(lastCall.res.events, LAMBDA e : e.slot = slot)

\* The positions of a slot's callbacks in the last call.
PositionsOf(slot) ==
    {i \in 1..Len(lastCall.res.events) : lastCall.res.events[i].slot = slot}

\* The buffer of the last Read as the target left it.
ReadBuffer == copy(lastCall.arg, lastCall.tgt.data)

RECURSIVE TextOf(_)
TextOf(outputs) ==
    IF outputs = <<>> THEN <<>> ELSE Head(outputs).text \o TextOf(Tail(outputs))

\* C1: whatever a proxy method returns to its caller is exactly what the
\* target returned: the same count, the same error (or none), the same
\* address, for every operation, constructor and template.
C1_Transparent ==
    lastCall.res.outcome = "returned" =>
        /\ lastCall.res.n = lastCall.tgt.n
        /\ lastCall.res.err = lastCall.tgt.err
        /\ lastCall.res.addr = lastCall.tgt.addr

C1_Witness ==
    /\ Returned("Read")
    /\ lastCall.tgt.n = 1
    /\ lastCall.tgt.err = generateError
    /\ lastCall.res.n = 1
    /\ lastCall.res.err = generateError
    /\ lastCall.out # <<>>

\* C2: a Read in which the target returned n > 0 invokes the read callback
\* exactly once, with buffer[0:n]; with n = 0 the read callback is not invoked;
\* Read never invokes the write or the close callback.
C2_ReadReport ==
    Returned("Read") =>
        /\ lastCall.tgt.n > 0 =>
              EventsOf("read") = <<Event("read", Slice(ReadBuffer, lastCall.tgt.n), "", Nil)>>
        /\ lastCall.tgt.n = 0 => EventsOf("read") = <<>>
        /\ EventsOf("write") = <<>>
        /\ EventsOf("close") = <<>>

C2_Witness ==
    /\ Returned("Read")
    /\ lastCall.tgt.n = 1
    /\ Len(lastCall.arg) = 2
    /\ lastCall.tgt.err = Nil
    /\ EventsOf("read") = <<Event("read", <<97>>, "", Nil)>>

\* C3: a Read in which the target returned n > 0 bytes and an error invokes
\* the read callback with buffer[0:n] before the error callback with location
\* "Read()" and that error; no error report precedes the data report.
C3_ReadDataBeforeError ==
    (Returned("Read") /\ lastCall.tgt.n > 0 /\ lastCall.tgt.err # Nil) =>
        /\ \E i \in PositionsOf("read"), j \in PositionsOf("error") :
              /\ i < j
              /\ lastCall.res.events[i].data = Slice(ReadBuffer, lastCall.tgt.n)
              /\ lastCall.res.events[j].location = "Read()"
              /\ lastCall.res.events[j].err = lastCall.tgt.err
        /\ \A i \in PositionsOf("read"), j \in PositionsOf("error") : i < j

C3_Witness ==
    /\ Returned("Read")
    /\ lastCall.tgt.n = 2
    /\ lastCall.tgt.err = generateError
    /\ config.ctor = "StringToWriter"
    /\ config.readFmt # <<>>
    /\ config.errorFmt # <<>>
    /\ TextOf(lastCall.out) = <<"R [", "a", "b", "]", "E [", "Read()", ": ", "ERROR!", "]">>

\* C4: a Write in which the target returned n > 0 invokes the write callback
\* exactly once, with the accepted prefix data[0:n]; with n = 0 the write
\* callback is not invoked; when the target also returned an error, the error
\* callback with location "Write()" is invoked after the write callback.
C4_WriteReport ==
    Returned("Write") =>
        /\ lastCall.tgt.n > 0 =>
              EventsOf("write") = <<Event("write", Slice(lastCall.arg, lastCall.tgt.n), "", Nil)>>
        /\ lastCall.tgt.n = 0 => EventsOf("write") = <<>>
        /\ lastCall.tgt.err # Nil =>
              /\ EventsOf("error") = <<Event("error", <<>>, "Write()", lastCall.tgt.err)>>
              /\ \A i \in PositionsOf("write"), j \in PositionsOf("error") : i < j

C4_Witness ==
    /\ Returned("Write")
    /\ lastCall.arg = <<97, 98>>
    /\ lastCall.tgt.n = 1
    /\ lastCall.tgt.err = generateError
    /\ EventsOf("write") = <<Event("write", <<97>>, "", Nil)>>
    /\ mock.WriteContents = <<97>>

\* C5 as stated: whenever the target accepts only N < L bytes of a Write, the
\* proxy reports the N-byte prefix and then an error with location "Write()";
\* a short write is never reported without an error report.
C5_ShortWriteAlwaysReportsError ==
    (Returned("Write") /\ lastCall.tgt.n < Len(lastCall.arg)) =>
        /\ PositionsOf("error") # {}
        /\ \A j \in PositionsOf("error") : lastCall.res.events[j].location = "Write()"
        /\ \A i \in PositionsOf("write"), j \in PositionsOf("error") : i < j

\* C5 amended: whenever the target accepts only N < L bytes of a Write, the
\* proxy reports the N-byte prefix (when N > 0) and, exactly when the target
\* also returned an error, reports that error with location "Write()" after the
\* data report; a short write the target returns without an error gets no
\* error report.
C5_ShortWriteReportsTargetError ==
    (Returned("Write") /\ lastCall.tgt.n < Len(lastCall.arg)) =>
        /\ lastCall.tgt.n > 0 =>
              EventsOf("write") = <<Event("write", Slice(lastCall.arg, lastCall.tgt.n), "", Nil)>>
        /\ lastCall.tgt.err # Nil =>
              /\ EventsOf("error") = <<Event("error", <<>>, "Write()", lastCall.tgt.err)>>
              /\ \A i \in PositionsOf("write"), j \in PositionsOf("error") : i < j
        /\ lastCall.tgt.err = Nil => EventsOf("error") = <<>>

C5_Witness ==
    /\ Returned("Write")
    /\ Len(lastCall.arg) = 2
    /\ lastCall.tgt.n = 1
    /\ lastCall.tgt.err = generateError
    /\ lastCall.res.events = <<Event("write", <<97>>, "", Nil),
                               Event("error", <<>>, "Write()", generateError)>>

\* C6: every Close invokes the close callback exactly once, whether the
\* target's close succeeded or failed; when it failed the error callback is
\* invoked once more, with location "Close()", after the close callback, so
\* that a writer sink shows the close message followed by the error message.
C6_CloseReport ==
    Returned("Close") =>
        /\ Len(EventsOf("close")) = 1
        /\ lastCall.tgt.err = Nil => lastCall.res.events = <<Event("close", <<>>, "", Nil)>>
        /\ lastCall.tgt.err # Nil =>
              lastCall.res.events = <<Event("close", <<>>, "", Nil),
                                      Event("error", <<>>, "Close()", lastCall.tgt.err)>>
        /\ ( /\ lastCall.tgt.err = generateError
             /\ config.ctor \in {"StringToWriter", "HexToWriter"}
             /\ config.errorFmt # <<>>
             /\ config.closeMsg # <<>> ) =>
              TextOf(lastCall.out) = <<"C", "E [", "Close()", ": ", "ERROR!", "]">>

C6_Witness ==
    /\ Returned("Close")
    /\ lastCall.tgt.err = generateError
    /\ config.ctor = "HexToWriter"
    /\ config.errorFmt # <<>>
    /\ config.closeMsg # <<>>
    /\ mock.CloseCallCount = 1
    /\ sink["writer"] = <<"C", "E [", "Close()", ": ", "ERROR!", "]">>

\* The classes of target on which each operation is supported.
SupportedOn(op) ==
    CASE op = "Read"  -> {"MockIO", "MockReader"}
      [] op = "Write" -> {"MockIO", "MockWriter"}
      [] op = "Close" -> {"MockIO", "MockCloser"}
      [] OTHER        -> {"MockIO"}

\* C7: a call panics iff the target lacks the capability of the operation
\* called (reader for Read, writer for Write, closer for Close, a full
\* connection for the address and deadline operations); a panic returns
\* nothing, and this holds for every call, whatever happened in earlier calls.
C7_PanicsIffUnsupported ==
    lastCall.op # "none" =>
        /\ lastCall.res.outcome \in {"panic", "returned"}
        /\ lastCall.res.outcome = "panic" <=> mock.class \notin SupportedOn(lastCall.op)
        /\ lastCall.res.outcome = "panic" =>
              /\ lastCall.res.n = 0
              /\ lastCall.res.err = Nil
              /\ lastCall.res.addr = Nil

C7_Witness ==
    /\ mock.class = "MockReader"
    /\ lastCall.prev = "panic"
    /\ Returned("Read")
    /\ lastCall.res.n = 2

\* The location tag of each deadline operation.
DeadlineTag(op) ==
    CASE op = "SetDeadline"      -> "SetDeadline()"
      [] op = "SetReadDeadline"  -> "SetReadDeadline()"
      [] op = "SetWriteDeadline" -> "SetWriteDeadline()"

\* The target as it is after exactly one more call of a deadline operation.
AfterDeadline(m, op) ==
    CASE op = "SetDeadline"      -> [m EXCEPT !.SetDeadlineCallCount = @ + 1]
      [] op = "SetReadDeadline"  -> [m EXCEPT !.SetReadDeadlineCallCount = @ + 1]
      [] op = "SetWriteDeadline" -> [m EXCEPT !.SetWriteDeadlineCallCount = @ + 1]

\* C8: each deadline operation calls the same-named target operation exactly
\* once; if the target returned an error the error callback is invoked exactly
\* once, with the tag of that operation and that error; otherwise no callback
\* is invoked; the read, write and close callbacks are never invoked.
C8_DeadlineStep ==
    ( /\ nops' = nops + 1
      /\ lastCall'.op \in {"SetDeadline", "SetReadDeadline", "SetWriteDeadline"}
      /\ lastCall'.res.outcome = "returned" ) =>
        /\ mock' = AfterDeadline(mock, lastCall'.op)
        /\ lastCall'.res.events =
              IF lastCall'.tgt.err # Nil
              THEN <<Event("error", <<>>, DeadlineTag(lastCall'.op), lastCall'.tgt.err)>>
              ELSE <<>>
        /\ lastCall'.tgt.err = Nil => sink' = sink

C8_Deadlines == [][C8_DeadlineStep]_vars

C8_Witness ==
    /\ Returned("SetReadDeadline")
    /\ lastCall.tgt.err = generateError
    /\ mock.SetReadDeadlineCallCount = 1
    /\ config.ctor = "StringToWriter"
    /\ sink["writer"] = <<"E [", "SetReadDeadline()", ": ", "ERROR!", "]">>

\* C9: LocalAddr and RemoteAddr each call the same-named target operation
\* exactly once and invoke no callback: no sink changes, however many address
\* calls are made.
C9_AddrStep ==
    ( /\ nops' = nops + 1
      /\ lastCall'.op \in {"LocalAddr", "RemoteAddr"}
      /\ lastCall'.res.outcome = "returned" ) =>
        /\ mock' = IF lastCall'.op = "LocalAddr"
                   THEN [mock EXCEPT !.LocalAddrCallCount = @ + 1]
                   ELSE [mock EXCEPT !.RemoteAddrCallCount = @ + 1]
        /\ lastCall'.res.events = <<>>
        /\ lastCall'.out = <<>>
        /\ sink' = sink

C9_Addresses == [][C9_AddrStep]_vars

C9_Witness ==
    /\ Returned("RemoteAddr")
    /\ mock.LocalAddrCallCount = 1
    /\ mock.RemoteAddrCallCount = 1
    /\ lastCall.res.addr = "addr"
    /\ \A w \in Writers : sink[w] = <<>>

\* The template a constructor was given for a channel.
TemplateOf(cfg, slot) ==
    CASE slot = "read"  -> cfg.readFmt
      [] slot = "write" -> cfg.writeFmt
      [] slot = "error" -> cfg.errorFmt
      [] slot = "close" -> cfg.closeMsg

\* C10: for StringToLog, HexToLog, StringToWriter and HexToWriter, a channel
\* whose template is the empty string produces no output: a call all of whose
\* events belong to channels with an empty template writes nothing to any sink.
C10_EmptyTemplateIsSilent ==
    ( /\ config.ctor \in {"StringToLog", "HexToLog", "StringToWriter", "HexToWriter"}
      /\ lastCall.res.outcome = "returned"
      /\ \A i \in 1..Len(lastCall.res.events) :
            TemplateOf(config, lastCall.res.events[i].slot) = <<>> ) =>
        TextOf(lastCall.out) = <<>>

\* The template the tests give a channel.
TestTemplate(slot) ==
    CASE slot = "read"  -> <<"R [", "%v", "]">>
      [] slot = "write" -> <<"W [", "%v", "]">>
      [] slot = "error" -> <<"E [", "%v", ": ", "%v", "]">>
      [] slot = "close" -> <<"C">>

\* The configuration with one channel's template replaced.
WithTemplate(cfg, slot, t) ==
    CASE slot = "read"  -> [cfg EXCEPT !.readFmt = t]
      [] slot = "write" -> [cfg EXCEPT !.writeFmt = t]
      [] slot = "error" -> [cfg EXCEPT !.errorFmt = t]
      [] slot = "close" -> [cfg EXCEPT !.closeMsg = t]

Channels == {"read", "write", "error", "close"}

\* C11: for StringToLog, HexToLog, StringToWriter and HexToWriter, a channel
\* disabled by an empty template leaves the other channels unaffected: the
\* events of the other three kinds are reported exactly as by the proxy built
\* with that channel's template non-empty.
C11_DisablingLeavesOthersUnaffected ==
    ( /\ config.ctor \in {"StringToLog", "HexToLog", "StringToWriter", "HexToWriter"}
      /\ lastCall.res.outcome = "returned" ) =>
        \A d \in Channels :
            TemplateOf(config, d) = <<>> =>
                LET others  == SelectSeq(lastCall.res.events, LAMBDA e : e.slot # d)
                    enabled == Construct(WithTemplate(config, d, TestTemplate(d)), mock.class)
                IN  Deliver(proxy, others) = Deliver(enabled, others)

\* The text of the first n bytes generateBytes produces.
ExpectedText(n) == SubSeq(<<"a", "b", "c", "d", "e", "f">>, 1, n)

\* The location tag of each operation that returns an error.
TagOf(op) ==
    CASE op = "Read"             -> "Read()"
      [] op = "Write"            -> "Write()"
      [] op = "Close"            -> "Close()"
      [] op = "SetDeadline"      -> "SetDeadline()"
      [] op = "SetReadDeadline"  -> "SetReadDeadline()"
      [] op = "SetWriteDeadline" -> "SetWriteDeadline()"

\* A proxy built by StringToWriter with the four templates of the tests.
FullStringToWriter ==
    /\ config.ctor = "StringToWriter"
    /\ \A d \in Channels : TemplateOf(config, d) = TestTemplate(d)

\* C16: with a string-mode writer proxy and non-empty templates, a successful
\* Write of bytes B appends to the sink exactly the write template with its
\* placeholder replaced by B as text ("W [test]" for "test"), and a failing
\* operation that transferred nothing appends exactly the error template with
\* the location and the error ("E [Read(): ERROR!]"), after the close message
\* in the case of Close; nothing else is written.
C16_Step ==
    ( /\ nops' = nops + 1
      /\ FullStringToWriter
      /\ lastCall'.res.outcome = "returned" ) =>
        /\ \A w \in Writers \ {"writer"} : sink'[w] = sink[w]
        /\ ( /\ lastCall'.op = "Write"
             /\ lastCall'.tgt.err = Nil
             /\ lastCall'.tgt.n = Len(lastCall'.arg) ) =>
               sink'["writer"] = sink["writer"] \o <<"W [">>
                                 \o ExpectedText(Len(lastCall'.arg)) \o <<"]">>
        /\ ( /\ lastCall'.tgt.err # Nil
             /\ lastCall'.tgt.n = 0 ) =>
               sink'["writer"] = sink["writer"]
                                 \o (IF lastCall'.op = "Close" THEN <<"C">> ELSE <<>>)
                                 \o <<"E [", TagOf(lastCall'.op), ": ", "ERROR!", "]">>
        /\ CallByteFunc(proxy.reportWriteEvent, <<116, 101, 115, 116>>)
              = <<Output("writer", <<"W [", "t", "e", "s", "t", "]">>)>>

C16_StringFormat == [][C16_Step]_vars

C16_Witness ==
    /\ FullStringToWriter
    /\ nops = 2
    /\ Returned("Read")
    /\ lastCall.tgt.n = 0
    /\ sink["writer"] = <<"W [", "a", "b", "]", "E [", "Read()", ": ", "ERROR!", "]">>

\* What a call adds to the notify sink of a proxy built by DumpToWriters.
NotifyText(cfg, call) ==
    (IF call.op = "Close" /\ cfg.closeMsg # <<>> THEN <<"C">> ELSE <<>>)
    \o (IF call.tgt.err # Nil /\ cfg.errorFmt # <<>>
        THEN <<"E [", TagOf(call.op), ": ", "ERROR!", "]">> ELSE <<>>)

\* C17: for a proxy built by DumpToWriters, the read sink receives exactly the
\* raw bytes of each read report, in call order, the write sink exactly the
\* raw bytes of each write report (so it holds what the target accepted), and
\* error and close messages go to the notify sink only; a Read never changes
\* the write sink and a Write never changes the read sink.
C17_Step ==
    ( /\ nops' = nops + 1
      /\ config.ctor = "DumpToWriters"
      /\ lastCall'.res.outcome = "returned" ) =>
        /\ sink'["readWriter"] =
              sink["readWriter"]
              \o (IF lastCall'.op = "Read" THEN ExpectedText(lastCall'.tgt.n) ELSE <<>>)
        /\ sink'["writeWriter"] =
              sink["writeWriter"]
              \o (IF lastCall'.op = "Write" THEN ExpectedText(lastCall'.tgt.n) ELSE <<>>)
        /\ sink'["writeWriter"] =
              [i \in 1..Len(mock'.WriteContents) |->
                  ExpectedText(MaxLen)[mock'.WriteContents[i] - 96]]
        /\ sink'["notifyWriter"] = sink["notifyWriter"] \o NotifyText(config, lastCall')
        /\ \A w \in Writers \ {"readWriter", "writeWriter", "notifyWriter"} :
              sink'[w] = sink[w]

C17_DumpSinks == [][C17_Step]_vars

C17_Witness ==
    /\ config.ctor = "DumpToWriters"
    /\ config.errorFmt # <<>>
    /\ nops = 2
    /\ Returned("Write")
    /\ lastCall.tgt.n = 1
    /\ lastCall.tgt.err = generateError
    /\ sink["readWriter"] = <<"a", "b">>
    /\ sink["writeWriter"] = <<"a">>
    /\ sink["notifyWriter"] = <<"E [", "Write()", ": ", "ERROR!", "]">>

\* The lowercase hexadecimal digit of a nibble.
HexDigit(n) ==
    CASE n = 0 -> "0" [] n = 1 -> "1" [] n = 2 -> "2" [] n = 3 -> "3"
      [] n = 4 -> "4" [] n = 5 -> "5" [] n = 6 -> "6" [] n = 7 -> "7"
      [] n = 8 -> "8" [] n = 9 -> "9" [] n = 10 -> "a" [] n = 11 -> "b"
      [] n = 12 -> "c" [] n = 13 -> "d" [] n = 14 -> "e" [] n = 15 -> "f"

\* C15: toHex(b) is, byte by byte and in order, two lowercase hexadecimal
\* digits (high nibble first) with one space between consecutive bytes and
\* none before the first or after the last: the empty sequence gives the empty
\* string, k > 0 bytes give 3k-1 characters, 01 02 AE F1 gives "01 02 ae f1".
C15_ToHex ==
    hex.done =>
        LET k == Len(hex.b)
        IN  /\ k = 0 => hex.s = <<>>
            /\ k > 0 => Len(hex.s) = 3 * k - 1
            /\ \A i \in 1..k :
                  /\ hex.s[3 * i - 2] = HexDigit(hex.b[i] \div 16)
                  /\ hex.s[3 * i - 1] = HexDigit(hex.b[i] % 16)
                  /\ i < k => hex.s[3 * i] = " "
            /\ hex.b = <<1, 2, 174, 241>> =>
                  hex.s = <<"0", "1", " ", "0", "2", " ", "a", "e", " ", "f", "1">>

C15_Witness ==
    /\ hex.done
    /\ hex.b = <<1, 2, 174, 241>>
    /\ hex.s = <<"0", "1", " ", "0", "2", " ", "a", "e", " ", "f", "1">>

\* C19: a proxy over a capable target whose callbacks do not fail completes
\* every operation and returns the target's outcome, whatever count the target
\* returns (negative or above the buffer's length included) and whichever
\* slots of Generic were left unset.
C19_OnlyCapabilityFailures ==
    (/\ config.ctor = "Generic"
     /\ "panics" \notin {config.read, config.write, config.error, config.close}
     /\ lastCall.op # "none")
    => /\ lastCall.res.outcome = "returned"
       /\ lastCall.res.n = lastCall.tgt.n
       /\ lastCall.res.err = lastCall.tgt.err

\* The slot a call reports its data or its close to, and whether it does.
C20_FirstSlot ==
    CASE lastCall.op = "Read"  -> "read"
      [] lastCall.op = "Write" -> "write"
      [] lastCall.op = "Close" -> "close"
      [] OTHER -> "none"

C20_FirstSlotCalled ==
    \/ lastCall.op = "Close"
    \/ /\ lastCall.op \in {"Read", "Write"}
       /\ lastCall.tgt.n > 0
       /\ lastCall.tgt.n <= Len(lastCall.arg)

C20_FirstSlotPanics == C20_FirstSlotCalled /\ config[C20_FirstSlot] = "panics"

C20_ErrorSlotPanics ==
    /\ lastCall.op \in {"Read", "Write", "Close"}
    /\ lastCall.tgt.n <= Len(lastCall.arg)
    /\ lastCall.tgt.err # Nil
    /\ config.error = "panics"
    /\ ~C20_FirstSlotPanics

\* C20: a panic raised by a callback ends the call with that panic: the target
\* was called once and is not called again, a callback that would have followed
\* is not called, and the callbacks before it have written what they write.
C20_CallbackPanicPropagates ==
    (/\ config.ctor = "Generic"
     /\ "nil" \notin {config.read, config.write, config.error, config.close})
    => /\ C20_FirstSlotPanics =>
            /\ lastCall.res.outcome = "panic: callback"
            /\ lastCall.res.forwarded = <<lastCall.op>>
            /\ \A i \in 1..Len(lastCall.res.events) : lastCall.res.events[i].slot # "error"
            /\ lastCall.out = <<>>
       /\ C20_ErrorSlotPanics =>
            /\ lastCall.res.outcome = "panic: callback"
            /\ lastCall.res.forwarded = <<lastCall.op>>
            /\ Len(lastCall.out) = (IF C20_FirstSlotCalled THEN 1 ELSE 0)
            /\ \A i \in 1..Len(lastCall.out) : lastCall.out[i].text[1] = C20_FirstSlot

C20_Witness ==
    /\ config.ctor = "Generic"
    /\ config.read = "panics"
    /\ config.error = "User"
    /\ lastCall.op = "Read"
    /\ lastCall.tgt.n > 0
    /\ lastCall.tgt.err # Nil
    /\ lastCall.res.outcome = "panic: callback"
    /\ lastCall.res.forwarded = <<"Read">>
    /\ lastCall.out = <<>>

\* The reports of a nested call that carry bytes, in the order they reached the
\* sink, and the first token of the report each mode of proxy writes.
ChainCall(op) ==
    /\ config.ctor = "Chain"
    /\ lastCall.op = op
    /\ lastCall.tgt.n > 0

ChainTag(mode, op) ==
    CASE mode = "string" /\ op = "Write" -> "WS ["
      [] mode = "string" /\ op = "Read"  -> "RS ["
      [] mode = "hex" /\ op = "Write"    -> "WH ["
      [] mode = "hex" /\ op = "Read"     -> "RH ["

IsDataReport(o) == o.text[1] \in {"WS [", "RS [", "WH [", "RH ["}

DataReports == SelectSeq(lastCall.out, IsDataReport)

InnerMode == IF config.outer = "hex" THEN "string" ELSE "hex"

ExpectedHex(n) ==
    SubSeq(<<"6", "1", " ", "6", "2", " ", "6", "3", " ", "6", "4">>, 1, 3 * n - 1)

ExpectedReport(mode, op, n) ==
    <<ChainTag(mode, op)>>
    \o (IF mode = "hex" THEN ExpectedHex(n) ELSE ExpectedText(n))
    \o <<"]\n">>

\* C12: with a string-mode and a hex-mode proxy nested around one target, one
\* Write through the outer proxy produces exactly one string report and one
\* hex report, the outer proxy's report first.
C12_OuterReportFirst ==
    ChainCall("Write") =>
        /\ Len(DataReports) = 2
        /\ DataReports[1].text = ExpectedReport(config.outer, "Write", lastCall.tgt.n)
        /\ DataReports[2].text = ExpectedReport(InnerMode, "Write", lastCall.tgt.n)

\* C12 as the code has it: exactly one string report and one hex report, the
\* inner proxy's report first, in either order of nesting.
C12_InnerReportFirst ==
    ChainCall("Write") =>
        /\ Len(DataReports) = 2
        /\ DataReports[1].text = ExpectedReport(InnerMode, "Write", lastCall.tgt.n)
        /\ DataReports[2].text = ExpectedReport(config.outer, "Write", lastCall.tgt.n)

C12_Witness ==
    /\ ChainCall("Write")
    /\ config.outer = "string"
    /\ lastCall.tgt.n = MaxLen
    /\ Len(lastCall.out) = 2
    /\ lastCall.out[1].text[1] = "WH ["
    /\ lastCall.out[2].text[1] = "WS ["

\* C13: with the hex-mode proxy wrapping the string-mode proxy wrapping the
\* target, every Write and every Read that moves bytes through the outer proxy
\* appends to the sink the string report and then the hex report of the same
\* bytes, one report per proxy, and the target performs the operation once; a
\* call that moves no bytes appends no report of bytes.
C13_Step ==
    ( /\ nops' = nops + 1
      /\ config.ctor = "Chain"
      /\ config.outer = "hex" ) =>
        LET op   == lastCall'.op
            n    == lastCall'.tgt.n
            data == SelectSeq(lastCall'.out, IsDataReport)
        IN  /\ lastCall'.res.outcome = "returned"
            /\ lastCall'.res.n = n
            /\ lastCall'.res.err = lastCall'.tgt.err
            /\ lastCall'.res.forwarded = <<op>>
            /\ op = "Write" =>
                  mock'.WriteContents = mock.WriteContents \o Slice(lastCall'.arg, n)
            /\ op = "Read" => mock' = mock
            /\ n = 0 => data = <<>>
            /\ n > 0 =>
                  /\ Len(data) = 2
                  /\ data[1] = Output("writer", ExpectedReport("string", op, n))
                  /\ data[2] = Output("writer", ExpectedReport("hex", op, n))
            /\ sink' = [sink EXCEPT !["writer"] = @ \o TextOf(lastCall'.out)]
            /\ lastCall'.tgt.err = Nil => lastCall'.out = data

SpecialNames == {"stdout", "stderr", "null"}

ExpectedWriter(filename) ==
    IF filename \in {"stdout", "stderr"} THEN filename
    ELSE IF filename = "null" \/ filename \in Uncreatable THEN Discard
    ELSE filename

ExpectedWarning(filename) ==
    IF filename \in Uncreatable
    THEN <<"<log> ", "LoggedIO: Error creating ", filename, ": ", createError, "\n">>
    ELSE <<>>

FilenamesOf(cfg) == {cfg.readFilename, cfg.writeFilename, cfg.notifyFilename}

\* What one call appends to destination d.
ExpectedAppend(cfg, call, d) ==
    (IF call.op = "Read" /\ call.tgt.n > 0 /\ ExpectedWriter(cfg.readFilename) = d
     THEN ExpectedText(call.tgt.n) ELSE <<>>)
    \o (IF call.op = "Write" /\ call.tgt.n > 0 /\ ExpectedWriter(cfg.writeFilename) = d
        THEN ExpectedText(call.tgt.n) ELSE <<>>)
    \o (IF call.op = "Close" /\ ExpectedWriter(cfg.notifyFilename) = d
        THEN <<"C">> ELSE <<>>)
    \o (IF call.tgt.err # Nil /\ ExpectedWriter(cfg.notifyFilename) = d
        THEN <<"E [", TagOf(call.op), ": ", "ERROR!", "]">> ELSE <<>>)

C18_Constructed ==
    config.ctor = "DumpToFiles" =>
        /\ proxy.reportReadEvent.w = ExpectedWriter(config.readFilename)
        /\ proxy.reportWriteEvent.w = ExpectedWriter(config.writeFilename)
        /\ proxy.reportErrorEvent.w = ExpectedWriter(config.notifyFilename)
        /\ proxy.reportCloseEvent.w = ExpectedWriter(config.notifyFilename)
        /\ files = ExistingFiles \cup (FilenamesOf(config) \ (SpecialNames \cup Uncreatable))
        /\ sink["log"] = ExpectedWarning(config.readFilename)
                         \o ExpectedWarning(config.writeFilename)
                         \o ExpectedWarning(config.notifyFilename)
        /\ \A f \in FilenamesOf(config) \ (SpecialNames \cup Uncreatable) :
              /\ nops = 0 => sink[f] = <<>>
              /\ \A i \in 1..Len(sink[f]) : sink[f][i] # "old"

C18_Step ==
    ( /\ nops' = nops + 1
      /\ config.ctor = "DumpToFiles" ) =>
        /\ lastCall'.res.outcome = "returned"
        /\ lastCall'.res.n = lastCall'.tgt.n
        /\ lastCall'.res.err = lastCall'.tgt.err
        /\ files' = files
        /\ \A d \in Writers : sink'[d] = sink[d] \o ExpectedAppend(config, lastCall', d)

\* C18: DumpToFiles always returns a proxy: "stdout", "stderr" and "null"
\* select standard output, standard error and the discard writer and create no
\* file; any other name is created as a file, emptied when it existed; when a
\* file cannot be created one warning is logged for it and that channel writes
\* to the discard writer, while the other channels receive their reports and
\* every call returns the target's outcome.
C18_DumpToFiles == [] C18_Constructed /\ [][C18_Step]_vars

C18_Witness ==
    /\ config.ctor = "DumpToFiles"
    /\ config.readFilename = "/nodir/r.log"
    /\ config.writeFilename = "w.log"
    /\ config.notifyFilename = "n.log"
    /\ nops = 2
    /\ lastCall.op = "Read"
    /\ lastCall.tgt.n = 2
    /\ lastCall.tgt.err # Nil
    /\ lastCall.res.outcome = "returned"
    /\ sink["w.log"] = <<"a", "b">>
    /\ sink["n.log"] = <<"E [", "Read()", ": ", "ERROR!", "]">>
    /\ sink["log"] = <<"<log> ", "LoggedIO: Error creating ", "/nodir/r.log", ": ",
                       "open: no such file or directory", "\n">>

\* The positions of the trace at which a callback ran, and the position at
\* which the target performed the operation of a call.
CallbackSteps == {i \in 1..Len(trace) : trace[i].kind = "callback"}

TargetStep(call) == CHOOSE i \in 1..Len(trace) : trace[i].kind = "target" /\ trace[i].call = call

\* C14: when two operations are invoked concurrently on one proxy, their
\* callbacks are invoked in the order in which the target executed the two
\* operations: all reports of the call the target completed first come before
\* the reports of the other.
C14_ReportsInTargetOrder ==
    \A i, j \in CallbackSteps :
        TargetStep(trace[i].call) < TargetStep(trace[j].call) => i < j

\* C14 as the code has it: the reports of a call come after the target has
\* performed that call's operation and in that call's own order, the error
\* report last; the calls of one goroutine are reported one after the other;
\* between the calls of two goroutines no order is kept.
C14_ReportsFollowOwnCall ==
    /\ \A i \in CallbackSteps : TargetStep(trace[i].call) < i
    /\ \A i, j \in CallbackSteps :
          ( /\ trace[i].call = trace[j].call
            /\ trace[i].slot # "error"
            /\ trace[j].slot = "error" ) => i < j
    /\ \A i, j \in CallbackSteps :
          ( /\ trace[i].g = trace[j].g
            /\ trace[i].call < trace[j].call ) => i < TargetStep(trace[j].call)
    /\ \A i, j \in CallbackSteps :
          ( /\ i # j
            /\ trace[i].call = trace[j].call ) => trace[i].slot # trace[j].slot

C14_Witness ==
    /\ Len(trace) = 4
    /\ trace[1] = Step("A", 1, "target", "Write")
    /\ trace[2] = Step("B", 2, "target", "Write")
    /\ trace[3] = Step("B", 2, "callback", "write")
    /\ trace[4] = Step("A", 1, "callback", "write")

\* C21: once the proxy is constructed, no call (returning without error,
\* returning an error of the target, or panicking on the type assertion)
\* changes its proxied object or any of its four callbacks, and the proxy has
\* no other field.
C21_Step ==
    /\ proxy' = proxy
    /\ proxy'.proxiedObject = mock.class
    /\ DOMAIN proxy' = {"proxiedObject", "reportReadEvent", "reportWriteEvent",
                        "reportErrorEvent", "reportCloseEvent"}
    /\ proxy' = Construct(config, mock.class)

C21_ProxyImmutable == [][C21_Step]_vars

C21_Witness ==
    /\ nops = 2
    /\ lastCall.prev = "panic"
    /\ lastCall.res.outcome = "returned"
    /\ lastCall.res.err # Nil
    /\ proxy = Construct(config, mock.class)

\* The MockIO counter an operation increments.
CounterOf(op) ==
    CASE op = "Close"            -> "CloseCallCount"
      [] op = "LocalAddr"        -> "LocalAddrCallCount"
      [] op = "RemoteAddr"       -> "RemoteAddrCallCount"
      [] op = "SetDeadline"      -> "SetDeadlineCallCount"
      [] op = "SetReadDeadline"  -> "SetReadDeadlineCallCount"
      [] op = "SetWriteDeadline" -> "SetWriteDeadlineCallCount"
      [] OTHER -> "none"

TargetSteps(call) == {i \in 1..Len(trace) : trace[i].kind = "target" /\ trace[i].call = call}

\* Every callback in the trace belongs to a call whose target operation ran
\* once, before it.
C22_Order ==
    \A i \in CallbackSteps :
        /\ Cardinality(TargetSteps(trace[i].call)) = 1
        /\ \A j \in TargetSteps(trace[i].call) : j < i

C22_Step ==
    /\ ( nops' = nops + 1 /\ lastCall'.res.outcome # "panic" ) =>
          LET op == lastCall'.op
              n  == lastCall'.tgt.n
          IN  /\ trace' = Append(trace, Step(Caller, nops', "target", op))
              /\ sink' = sink
              /\ op = "Write" =>
                    /\ lastCall'.arg = SubSeq(<<97, 98, 99, 100, 101>>, 1, MaxLen)
                    /\ mock' = [mock EXCEPT !.WriteContents = @ \o SubSeq(lastCall'.arg, 1, n)]
              /\ op = "Read" =>
                    /\ mock' = mock
                    /\ \A i \in 1..MaxLen :
                          lastCall'.res.b[i] = IF i <= n THEN lastCall'.tgt.data[i] ELSE 0
              /\ op \notin {"Read", "Write"} =>
                    mock' = [mock EXCEPT ![CounterOf(op)] = @ + 1]
    /\ nops' = nops =>
          /\ mock' = mock
          /\ \/ trace' = trace
             \/ /\ Len(trace') = Len(trace) + 1
                /\ trace'[Len(trace')].kind = "callback"
                /\ trace'[Len(trace')].call = nops

\* C22: every call of a method that passes the type assertion calls the
\* target's operation of the same name exactly once, on the caller's argument,
\* and that call has returned before the first callback of the call runs; when
\* the target returns an error the operation is not called again.
C22_ForwardOnceThenReport == [] C22_Order /\ [][C22_Step]_vars

C22_Witness ==
    /\ trace = <<Step(Caller, 1, "target", "Write"), Step(Caller, 1, "callback", "write"),
                 Step(Caller, 1, "callback", "error")>>
    /\ lastCall.tgt.err # Nil
    /\ mock.WriteContents = <<97>>
    /\ sink["writer"] = <<"W [", "a", "]", "E [", "Write()", ": ", "ERROR!", "]">>

ErrorReturning ==
    {"Read", "Write", "Close", "SetDeadline", "SetReadDeadline", "SetWriteDeadline"}

\* C23: for Read, Write, Close, SetDeadline, SetReadDeadline and
\* SetWriteDeadline, a call whose target operation returned an error calls the
\* error callback exactly once, as the last callback of the call, with the tag
\* of the method that was called and the error the target returned; a call
\* whose target operation returned no error does not call it.
C23_ErrorCallback ==
    ( /\ lastCall.op \in ErrorReturning
      /\ lastCall.res.outcome = "returned" ) =>
        LET events == lastCall.res.events
        IN  /\ lastCall.tgt.err = Nil => PositionsOf("error") = {}
            /\ lastCall.tgt.err # Nil =>
                  /\ PositionsOf("error") = {Len(events)}
                  /\ events[Len(events)].location = TagOf(lastCall.op)
                  /\ events[Len(events)].err = lastCall.tgt.err
                  /\ config.errorFmt # <<>> =>
                        /\ lastCall.out # <<>>
                        /\ lastCall.out[Len(lastCall.out)].text
                             = IF config.ctor \in {"StringToLog", "HexToLog"}
                               THEN <<"<log> ", "E [", TagOf(lastCall.op), ": ", "ERROR!", "]", "\n">>
                               ELSE <<"E [", TagOf(lastCall.op), ": ", "ERROR!", "]">>

C23_Witness ==
    /\ lastCall.op = "SetWriteDeadline"
    /\ lastCall.res.outcome = "returned"
    /\ lastCall.tgt.err # Nil
    /\ config.ctor = "HexToWriter"
    /\ PositionsOf("error") = {1}
    /\ lastCall.out = <<Output("writer", <<"E [", "SetWriteDeadline()", ": ", "ERROR!", "]">>)>>

\* C24: a call that panics on the type assertion calls none of the four
\* callbacks and no operation of the target, and leaves every sink as it was.
C24_Step ==
    ( /\ nops' = nops + 1
      /\ mock.class \notin SupportedOn(lastCall'.op) ) =>
        /\ lastCall'.res.outcome = "panic"
        /\ lastCall'.res.events = <<>>
        /\ lastCall'.res.forwarded = <<>>
        /\ lastCall'.out = <<>>
        /\ sink' = sink
        /\ mock' = mock

C24_MismatchIsSilent == [][C24_Step]_vars

C24_Witness ==
    /\ nops = 2
    /\ mock.class = "MockReader"
    /\ lastCall.op = "Write"
    /\ lastCall.tgt.n > 0
    /\ lastCall.tgt.err # Nil
    /\ lastCall.res.outcome = "panic"
    /\ lastCall.prev = "returned"
    /\ config.ctor = "StringToWriter"
    /\ sink["writer"] = <<"R [", "a", "]">>

\* The bytes a call reported through one slot, in order.
RECURSIVE Payload(_, _)
Payload(events, slot) ==
    IF events = <<>> THEN <<>>
    ELSE (IF Head(events).slot = slot THEN Head(events).data ELSE <<>>)
         \o Payload(Tail(events), slot)

\* With raw dumps the two data sinks hold the payloads of all calls so far.
C25_Dumped ==
    config.ctor = "DumpToWriters" =>
        /\ Len(sink["writeWriter"]) = Len(mock.WriteContents)
        /\ \A i \in 1..Len(mock.WriteContents) :
              sink["writeWriter"][i] = Letters[mock.WriteContents[i] - 96]

C25_Step ==
    nops' = nops + 1 =>
        LET call    == lastCall'
            moved   == IF call.res.outcome = "returned" THEN call.tgt.n ELSE 0
            written == IF call.op = "Write" THEN SubSeq(call.arg, 1, moved) ELSE <<>>
            read    == IF call.op = "Read" THEN SubSeq(call.res.b, 1, moved) ELSE <<>>
        IN  /\ Payload(call.res.events, "write") = written
            /\ Payload(call.res.events, "read") = read
            /\ mock'.WriteContents = mock.WriteContents \o written
            /\ call.op = "Read" /\ call.res.outcome = "returned" =>
                  read = SubSeq(call.tgt.data, 1, moved)
            /\ config.ctor = "DumpToWriters" =>
                  /\ sink'["writeWriter"] = sink["writeWriter"] \o ExpectedText(Len(written))
                  /\ sink'["readWriter"] = sink["readWriter"] \o ExpectedText(Len(read))

\* C25: over any sequence of Read and Write calls, the write payloads reported
\* so far, put end to end, are the bytes the target accepted, in order, and the
\* read payloads are the bytes delivered to the caller, in order: each call
\* reports exactly the bytes it moved, none when it moved none.
C25_PayloadsAreTheBytesMoved == [] C25_Dumped /\ [][C25_Step]_vars

C25_Witness ==
    /\ config.ctor = "DumpToWriters"
    /\ nops = 2
    /\ lastCall.op = "Write"
    /\ lastCall.tgt.n = 2
    /\ mock.WriteContents = <<97, 97, 98>>
    /\ sink["writeWriter"] = <<"a", "a", "b">>
    /\ sink["notifyWriter"] # <<>>

\* C26: with a proxy built by DumpToWriters with a non-empty error template,
\* when the read (write) writer fails to take the payload of a Read (Write),
\* one message with the location "LoggedIO readWriter" ("LoggedIO
\* writeWriter") is written to the notify writer, before the report of the
\* target's own error if there is one; nothing is raised to the caller, and
\* the method returns the count and the error the target returned.
C26_Step ==
    ( /\ nops' = nops + 1
      /\ config.ctor = "DumpToWriters"
      /\ config.errorFmt # <<>>
      /\ lastCall'.tgt.n > 0
      /\ \/ lastCall'.op = "Read" /\ config.readWriter = "failingReadWriter"
         \/ lastCall'.op = "Write" /\ config.writeWriter = "failingWriteWriter" ) =>
        LET call == lastCall'
            location == IF call.op = "Read" THEN "LoggedIO readWriter"
                                            ELSE "LoggedIO writeWriter"
        IN  /\ call.res.outcome = "returned"
            /\ call.res.n = call.tgt.n
            /\ call.res.err = call.tgt.err
            /\ sink'["notifyWriter"] =
                  sink["notifyWriter"]
                  \o <<"E [", location, ": ", "ERROR!", "]">>
                  \o (IF call.tgt.err # Nil
                      THEN <<"E [", TagOf(call.op), ": ", "ERROR!", "]">> ELSE <<>>)
            /\ \A w \in Writers \ {"notifyWriter"} : sink'[w] = sink[w]

C26_FailingDataWriter == [][C26_Step]_vars

C26_Witness ==
    /\ config.ctor = "DumpToWriters"
    /\ config.readWriter = "failingReadWriter"
    /\ config.writeWriter = "failingWriteWriter"
    /\ config.errorFmt # <<>>
    /\ nops = 2
    /\ lastCall.op = "Write"
    /\ lastCall.res.outcome = "returned"
    /\ lastCall.res.n = 2
    /\ lastCall.res.err = Nil
    /\ sink["notifyWriter"] = <<"E [", "LoggedIO readWriter", ": ", "ERROR!", "]",
                                "E [", "LoggedIO writeWriter", ": ", "ERROR!", "]">>

\* C27: the reports of one call are not atomic: while two calls run on the
\* proxy at once, a report of one can be delivered between the data (or close)
\* report and the error report of the other (C27_Witness is such a state); in
\* every interleaving the data or close report of a call still comes before
\* that call's own error report.
C27_OwnOrderKept ==
    \A j \in CallbackSteps :
        trace[j].slot = "error" =>
            /\ \A i \in CallbackSteps :
                  (trace[i].call = trace[j].call /\ i # j) =>
                      /\ i < j
                      /\ trace[i].slot \in {"read", "write", "close"}
            /\ \A i \in 1..Len(trace) :
                  (trace[i].call = trace[j].call /\ trace[i].kind = "target") =>
                      /\ trace[i].g = trace[j].g
                      /\ i < j

C27_Witness ==
    /\ Len(trace) = 5
    /\ trace[1] = Step("A", 1, "target", "Write")
    /\ trace[2] = Step("B", 2, "target", "Read")
    /\ trace[3] = Step("A", 1, "callback", "write")
    /\ trace[4] = Step("B", 2, "callback", "read")
    /\ trace[5] = Step("A", 1, "callback", "error")
    /\ sink["writer"] = <<"W [">> \o ExpectedText(MaxLen) \o <<"]", "R [">>
                        \o ExpectedText(MaxLen) \o <<"]", "E [", "Write()", ": ", "ERROR!", "]">>

====
